---- MODULE Spec2Model ----
(***************************************************************************)
(* Model of the portfolio performance engine of idea_index:                *)
(*   backend/services/market_data_service.py  (MarketDataService)          *)
(*   backend/services/performance_service.py  (PerformanceService)         *)
(*   backend/services/constants.py            (get_benchmark_for_portfolio)*)
(*   backend/api/index_routes.py              (get_performance_data)       *)
(*                                                                         *)
(* Conventions                                                             *)
(*  - a date is a day number; day 0 is a Monday, so weekday(d) = d % 7.    *)
(*  - a DataFrame is a record [col, tz, rows]: col is the price column it  *)
(*    carries, tz the UTC offset in hours of its index (0: tz-naive) and   *)
(*    rows the sequence of [date, price] in index order.                   *)
(*  - index values are held in hundredths (100.00 is 10000) and a weight   *)
(*    fraction weight/100.0 in hundredths as well (0.6 is 60).             *)
(*  - a Python call is modelled by an operator returning a record whose    *)
(*    field raised tells whether an exception left the call.               *)
(***************************************************************************)
EXTENDS Integers, Sequences, FiniteSets, TLC

VARIABLES cache, op, inp, out

vars == <<cache, op, inp, out>>

(***************************************************************************)
(* Bounds of the checked instances.                                        *)
(***************************************************************************)
\* longest raw series handed to the sampling policy on its own
MaxRows == 5
\* number of rows of a frame in the checks of the data source adapter
ShortRows == 2
\* number of rows of a full raw price series of a ticker or of the benchmark
FullRows == 22

\* datetime.now(), as a day number
Today == 400

\* the first day of the raw series the data source answers
FirstDay == Today - FullRows - 1

(***************************************************************************)
(* Program constants.                                                      *)
(***************************************************************************)
\* index_routes.py: months = Query(default=12, ge=1, le=120)
MinMonths == 1
MaxMonths == 120

\* market_data_service.py: len(all_dates) < 10
MinCommonDates == 10
\* market_data_service.py: min(months * 21, len(all_dates))
TradingDaysPerMonth == 21
\* market_data_service.py: timedelta(days=months * 30)
DaysPerMonth == 30
\* market_data_service.py: abs(...).days <= 3
AlignTolerance == 3
\* market_data_service.py: current_value = 100.0, held in 1/10000
StartValue == 1000000

(***************************************************************************)
(* Values.                                                                 *)
(***************************************************************************)
\* float('nan') in a price column
NaN == 0 - 1
\* Python's None
None == [kind |-> "None"]

Abs(x) == IF x < 0 THEN 0 - x ELSE x

Min(a, b) == IF a <= b THEN a ELSE b

Range(s) == {s[i] : i \in 1..Len(s)}

RECURSIVE GCD(_, _)
GCD(a, b) == IF b = 0 THEN a ELSE GCD(b, a % b)

\* round(n/d) to the nearest integer, ties to even (Python's round), n >= 0, d > 0
RoundDiv(n, d) ==
    LET q == n \div d
        r == n % d
    IN  IF 2 * r < d THEN q
        ELSE IF 2 * r > d THEN q + 1
        ELSE IF q % 2 = 0 THEN q ELSE q + 1

Frame(col, tz, rows) == [kind |-> "frame", col |-> col, tz |-> tz, rows |-> rows]

\* self.cache = {}
EmptyCache == [k \in {} |-> None]

\* results = {}
EmptyResults == [t \in {} |-> None]

\* the list a comprehension or an appending loop builds: the values, held in
\* order
List(f) == f \o << >>

\* a local variable: v is computed once and F uses the value
Local(v, F(_)) == CHOOSE y \in {F(x) : x \in {v}} : TRUE

\* DataFrame.empty
IsEmpty(data) == Len(data.rows) = 0

\* the index of a frame or series, as a set of dates
DatesOf(rows) == {rows[i].date : i \in 1..Len(rows)}

(***************************************************************************)
(* Sampling policy: MarketDataService.get_optimal_interval and             *)
(* MarketDataService.sample_data_for_performance.                          *)
(***************************************************************************)
get_optimal_interval(months) ==
    IF months >= 60 THEN "1wk"
    ELSE IF months >= 36 THEN "1wk"
    ELSE IF months >= 12 THEN "1d"
    ELSE IF months >= 6 THEN "1d"
    ELSE "1d"

\* data.iloc[::2]: the rows at positions 0, 2, 4, ...
EverySecondRow(rows) == List([i \in 1..((Len(rows) + 1) \div 2) |-> rows[2 * i - 1]])

\* a sampling policy that decimates horizons of a year and more only
sample_rows_from_12(rows, months) ==
    IF Len(rows) = 0 THEN rows
    ELSE IF months >= 60 THEN rows
    ELSE IF months >= 36 THEN rows
    ELSE IF months >= 12 THEN EverySecondRow(rows)
    ELSE rows

\* sample_data_for_performance on the rows of a frame
sample_rows(rows, months) ==
    IF Len(rows) = 0 THEN rows
    ELSE IF months >= 60 THEN rows
    ELSE IF months >= 36 THEN rows
    ELSE IF months >= 12 THEN EverySecondRow(rows)
    ELSE IF months >= 6 THEN EverySecondRow(rows)
    ELSE rows

sample_data_for_performance(data, months) ==
    [data EXCEPT !.rows = sample_rows(data.rows, months)]

(***************************************************************************)
(* Raw series the data source may return: consecutive dates lo .. lo+n-1   *)
(* without the date gap (gap < lo: no gap), priced by pattern pat.         *)
(***************************************************************************)
PriceAt(pat, d) ==
    CASE pat = "flat" -> 100
      [] pat = "up"   -> 100 + (d - FirstDay)
      [] pat = "down" -> 200 - 2 * (d - FirstDay)
      \* 100, then 110 resp. 90 from the 2nd date a composite of one month keeps
      [] pat = "gain" -> IF d <= Today - TradingDaysPerMonth - 1 THEN 100 ELSE 110
      [] pat = "loss" -> IF d <= Today - TradingDaysPerMonth - 1 THEN 100 ELSE 90
      [] OTHER        -> 100

RECURSIVE RowsFrom(_, _, _, _)
RowsFrom(lo, n, gap, pat) ==
    IF n = 0 THEN << >>
    ELSE IF lo = gap THEN RowsFrom(lo + 1, n - 1, gap, pat)
    ELSE <<[date |-> lo, price |-> PriceAt(pat, lo)]>> \o RowsFrom(lo + 1, n - 1, gap, pat)

(***************************************************************************)
(* Data source adapter: MarketDataService.fetch_historical_data and        *)
(* MarketDataService.fetch_multiple_tickers.  What the data source answers *)
(* is an input: resp is the outcome of yf.Ticker(t).history(...), bulk the *)
(* outcome of yf.download(...).                                            *)
(***************************************************************************)
\* yfinance raised (network error, unknown symbol, ...)
SourceError == [kind |-> "raise"]

\* cache_key = f"{ticker}_{period}_{interval}_{start_date}_{end_date}"
cache_key(ticker, period, interval, start_date, end_date) ==
    <<ticker, period, interval, start_date, end_date>>

\* the default of the parameter period
DefaultPeriod == "1y"

\* fetch_historical_data without its except clause: the error of the data
\* source leaves the call
fetch_historical_data_unguarded(c, key, resp) ==
    IF key \in DOMAIN c
    THEN [raised |-> FALSE, value |-> c[key], cache |-> c, asked |-> FALSE]
    ELSE IF resp.kind = "raise"
    THEN [raised |-> TRUE, value |-> None, cache |-> c, asked |-> TRUE]
    ELSE IF IsEmpty(resp)
    THEN [raised |-> FALSE, value |-> None, cache |-> c, asked |-> TRUE]
    ELSE [raised |-> FALSE, value |-> resp, cache |-> (key :> resp) @@ c, asked |-> TRUE]

\* a cache that holds the last fetched series only
fetch_historical_data_evicting(c, key, resp) ==
    IF key \in DOMAIN c
    THEN [raised |-> FALSE, value |-> c[key], cache |-> c, asked |-> FALSE]
    ELSE IF resp.kind = "raise"
    THEN [raised |-> FALSE, value |-> None, cache |-> c, asked |-> TRUE]
    ELSE IF IsEmpty(resp)
    THEN [raised |-> FALSE, value |-> None, cache |-> c, asked |-> TRUE]
    ELSE [raised |-> FALSE, value |-> resp, cache |-> (key :> resp), asked |-> TRUE]

\* a cache that keeps every answer of the data source, empty ones too
fetch_historical_data_storing(c, key, resp) ==
    IF key \in DOMAIN c
    THEN [raised |-> FALSE, value |-> c[key], cache |-> c, asked |-> FALSE]
    ELSE IF resp.kind = "raise"
    THEN [raised |-> FALSE, value |-> None, cache |-> c, asked |-> TRUE]
    ELSE IF IsEmpty(resp)
    THEN [raised |-> FALSE, value |-> None, cache |-> (key :> resp) @@ c, asked |-> TRUE]
    ELSE [raised |-> FALSE, value |-> resp, cache |-> (key :> resp) @@ c, asked |-> TRUE]

\* fetch_historical_data on cache c; asked tells whether the data source was
\* called, cache is self.cache after the call
fetch_historical_data(c, key, resp) ==
    IF key \in DOMAIN c
    THEN [raised |-> FALSE, value |-> c[key], cache |-> c, asked |-> FALSE]
    ELSE IF resp.kind = "raise"
    THEN \* except Exception: return None
         [raised |-> FALSE, value |-> None, cache |-> c, asked |-> TRUE]
    ELSE IF IsEmpty(resp)
    THEN [raised |-> FALSE, value |-> None, cache |-> c, asked |-> TRUE]
    ELSE [raised |-> FALSE, value |-> resp, cache |-> (key :> resp) @@ c, asked |-> TRUE]

\* ticker_data.isna().all().all()
AllNaN(data) == \A i \in 1..Len(data.rows) : data.rows[i].price = NaN

\* the individual fetches of the tickers at positions i.. of the list, each
\* through fetch_historical_data; acc = [results, cache, retried]
RECURSIVE IndividualLoop(_, _, _, _, _)
IndividualLoop(tickers, i, keyOf, indiv, acc) ==
    IF i > Len(tickers) THEN acc
    ELSE LET t == tickers[i]
             r == fetch_historical_data(acc.cache, keyOf[t], indiv[t])
         IN  IndividualLoop(tickers, i + 1, keyOf, indiv,
                [results |-> IF r.value # None
                             THEN (t :> r.value) @@ acc.results
                             ELSE acc.results,
                 cache |-> r.cache,
                 retried |-> acc.retried \cup {t}])

\* the loop over the tickers of a bulk result (the multiple tickers case)
RECURSIVE BulkLoop(_, _, _, _, _, _)
BulkLoop(tickers, i, keyOf, bulk, indiv, acc) ==
    IF i > Len(tickers) THEN acc
    ELSE LET t == tickers[i]
         IN  IF t \notin DOMAIN bulk.per
             THEN \* except KeyError: fall back to individual fetch
                  LET r == fetch_historical_data(acc.cache, keyOf[t], indiv[t])
                  IN  BulkLoop(tickers, i + 1, keyOf, bulk, indiv,
                         [results |-> IF r.value # None
                                      THEN (t :> r.value) @@ acc.results
                                      ELSE acc.results,
                          cache |-> r.cache,
                          retried |-> acc.retried \cup {t}])
             ELSE IF ~IsEmpty(bulk.per[t]) /\ ~AllNaN(bulk.per[t])
             THEN BulkLoop(tickers, i + 1, keyOf, bulk, indiv,
                     [acc EXCEPT !.results = (t :> bulk.per[t]) @@ acc.results])
             ELSE BulkLoop(tickers, i + 1, keyOf, bulk, indiv, acc)

\* fetch_multiple_tickers: bulk is [kind |-> "raise"] or [kind |-> "bulk",
\* per |-> the frames by ticker]; with one ticker yf.download answers the
\* frame of that ticker itself.  indiv[t] is what an individual fetch of t
\* would be answered.
fetch_multiple_tickers(c, tickers, keyOf, bulk, indiv) ==
    LET start == [results |-> EmptyResults, cache |-> c, retried |-> {}]
        done ==
            IF bulk.kind = "raise"
            THEN \* except Exception: individual fetching of every ticker
                 IndividualLoop(tickers, 1, keyOf, indiv, start)
            ELSE IF Len(tickers) = 1
            THEN IF ~IsEmpty(bulk.per[tickers[1]])
                 THEN [start EXCEPT !.results = (tickers[1] :> bulk.per[tickers[1]])]
                 ELSE start
            ELSE BulkLoop(tickers, 1, keyOf, bulk, indiv, start)
    IN  [raised |-> FALSE, results |-> done.results, cache |-> done.cache,
         retried |-> done.retried]

(***************************************************************************)
(* Synthetic fallback: MarketDataService._generate_fallback_data and       *)
(* MarketDataService._generate_fallback_benchmark.  The draws of           *)
(* np.random.normal are an input: draw i of a run is Draw(seed, i), in     *)
(* percent.  The running value is held in 1/10000.                         *)
(***************************************************************************)
ReturnChoices == <<0, 1, 0 - 1>>

\* the runs of draws of the checked instances
Seeds == 0..(Len(ReturnChoices) - 1)

\* the horizons (months) of the checked calls of the aggregator and aligner:
\* one without and one with decimation
Horizons == {1, 6}

Draw(seed, i) == ReturnChoices[((seed + i) % Len(ReturnChoices)) + 1]

\* current_date.weekday()
weekday(d) == d % 7

\* current_value *= (1 + daily_return)
Grow(value, r) == (value * (100 + r)) \div 100

\* round(current_value, 2), in hundredths
Round2(value) == RoundDiv(value, 100)

\* the values appended by n successive steps "current_value *= 1 + draw;
\* append(round(current_value, 2))" from value on, the first with draw k, and
\* the running value after them (the steps are taken in halves to keep the
\* evaluation shallow)
RECURSIVE WalkValues(_, _, _, _)
WalkValues(value, seed, k, n) ==
    IF n = 0 THEN [values |-> << >>, last |-> value]
    ELSE IF n = 1
    THEN LET v == Grow(value, Draw(seed, k))
         IN  [values |-> <<Round2(v)>>, last |-> v]
    ELSE LET h == n \div 2
             a == WalkValues(value, seed, k, h)
             b == WalkValues(a.last, seed, k + h, n - h)
         IN  [values |-> a.values \o b.values, last |-> b.last]

\* every day from start_date to end_date, weekends included
CalendarDays(start_date, end_date) ==
    [i \in 1..(end_date - start_date + 1) |-> start_date + i - 1]

\* the dates the while loop of _generate_fallback_data keeps: the days from
\* start_date to end_date, both included, that are Monday to Friday
BusinessDays(start_date, end_date) ==
    SelectSeq([i \in 1..(end_date - start_date + 1) |-> start_date + i - 1],
              LAMBDA d : weekday(d) < 5)

\* the dates and values of the horizons and seeds of the checked instances,
\* computed once; end_date = datetime.now() is Today
FallbackWalks ==
    [months \in Horizons, seed \in Seeds |->
        LET dates == BusinessDays(Today - months * DaysPerMonth, Today)
        IN  [dates |-> dates,
             values |-> WalkValues(StartValue, seed, 0, Len(dates)).values]]

_generate_fallback_data(months, seed) ==
    LET w == FallbackWalks[months, seed]
    IN  [src |-> "synthetic", dates |-> w.dates, index_values |-> w.values,
         portfolio_values |-> w.values]

_generate_fallback_benchmark(num_points, seed) ==
    WalkValues(StartValue, seed, 0, num_points).values

(***************************************************************************)
(* Composite aggregator: MarketDataService._calculate_weighted_performance *)
(***************************************************************************)
\* data['Adj Close'].dropna() / data['Close'].dropna()
dropna(rows) == SelectSeq(rows, LAMBDA r : r.price # NaN)

HasPriceColumn(data) == data.col \in {"Adj Close", "Close"}

\* sorted(all_dates)
\* the dates in descending order
RECURSIVE DescendingSeq(_)
DescendingSeq(S) ==
    IF S = {} THEN << >>
    ELSE LET m == CHOOSE x \in S : \A y \in S : y <= x
         IN  <<m>> \o DescendingSeq(S \ {m})

RECURSIVE SortedSeq(_)
SortedSeq(S) ==
    IF S = {} THEN << >>
    ELSE LET m == CHOOSE x \in S : \A y \in S : x <= y
         IN  <<m>> \o SortedSeq(S \ {m})

\* seq[:n], the oldest n in place of the most recent
FirstN(seq, n) == SubSeq(seq, 1, n)

\* seq[-n:] for 0 < n <= Len(seq)
LastN(seq, n) == SubSeq(seq, Len(seq) - n + 1, Len(seq))

\* ticker_prices[ticker][date]
PriceOn(rows, date) == (CHOOSE i \in 1..Len(rows) : rows[i].date = date)

\* the first loop: the sampled prices by ticker and the common dates;
\* acc = [ticker_prices, all_dates, none] (none: all_dates is None)
RECURSIVE CollectPrices(_, _, _, _, _)
CollectPrices(ticker_data, tickers, months, i, acc) ==
    IF i > Len(tickers) THEN acc
    ELSE LET t == tickers[i]
             next(a) == CollectPrices(ticker_data, tickers, months, i + 1, a)
         IN  IF t \notin DOMAIN ticker_data THEN next(acc)
             ELSE IF ~HasPriceColumn(ticker_data[t]) THEN next(acc)
             ELSE LET prices == dropna(ticker_data[t].rows)
                      sampled == sample_rows(prices, months)
                  IN  IF Len(prices) = 0 THEN next(acc)
                      ELSE next([ticker_prices |-> (t :> sampled) @@ acc.ticker_prices,
                                 all_dates |-> IF acc.none THEN DatesOf(sampled)
                                               ELSE acc.all_dates \cap DatesOf(sampled),
                                 none |-> FALSE])

\* the sums with the weight of every ticker in total_weight, priced on date
\* or not
RECURSIVE WeightedSumsOverAll(_, _, _, _, _, _)
WeightedSumsOverAll(ticker_prices, tickers, weights, date, i, acc) ==
    IF i > Len(tickers) THEN acc
    ELSE LET t == tickers[i]
             weight == IF i <= Len(weights) THEN weights[i] ELSE 0
         IN  IF t \in DOMAIN ticker_prices /\ date \in DatesOf(ticker_prices[t])
             THEN LET rows == ticker_prices[t]
                      price == rows[PriceOn(rows, date)].price
                  IN  WeightedSumsOverAll(ticker_prices, tickers, weights, date, i + 1,
                         [value |-> acc.value + price * weight,
                          total_weight |-> acc.total_weight + weight])
             ELSE WeightedSumsOverAll(ticker_prices, tickers, weights, date, i + 1,
                         [acc EXCEPT !.total_weight = @ + weight])

\* the sums of price * weight and of weight over the tickers priced on date
RECURSIVE WeightedSums(_, _, _, _, _, _)
WeightedSums(ticker_prices, tickers, weights, date, i, acc) ==
    IF i > Len(tickers) THEN acc
    ELSE LET t == tickers[i]
         IN  IF t \in DOMAIN ticker_prices /\ date \in DatesOf(ticker_prices[t])
             THEN LET rows == ticker_prices[t]
                      price == rows[PriceOn(rows, date)].price
                      weight == IF i <= Len(weights) THEN weights[i] ELSE 0
                  IN  WeightedSums(ticker_prices, tickers, weights, date, i + 1,
                         [value |-> acc.value + price * weight,
                          total_weight |-> acc.total_weight + weight])
             ELSE WeightedSums(ticker_prices, tickers, weights, date, i + 1, acc)

\* the < 10 test with < replaced by <=
InsufficientAtTen(n) == n <= MinCommonDates

\* len(all_dates) < 10
Insufficient(n) == n < MinCommonDates

_calculate_weighted_performance(ticker_data, tickers, weights, months, seed) ==
    Local(CollectPrices(ticker_data, tickers, months, 1,
                [ticker_prices |-> EmptyResults, all_dates |-> {}, none |-> TRUE]),
          LAMBDA c :
        IF DOMAIN c.ticker_prices = {} \/ c.none \/ Insufficient(Cardinality(c.all_dates))
        THEN _generate_fallback_data(months, seed)
        ELSE Local(SortedSeq(c.all_dates), LAMBDA sorted :
             Local(LastN(sorted, Min(months * TradingDaysPerMonth, Len(sorted))),
                   LAMBDA all_dates :
             LET sums == List([k \in 1..Len(all_dates) |->
                            WeightedSums(c.ticker_prices, tickers, weights, all_dates[k], 1,
                                         [value |-> 0, total_weight |-> 0])])
                 \* portfolio_value / total_weight as a fraction num / den
                 num == List([k \in 1..Len(all_dates) |-> sums[k].value])
                 den == List([k \in 1..Len(all_dates) |->
                            IF sums[k].total_weight > 0 THEN sums[k].total_weight ELSE 1])
             IN  IF Len(all_dates) = 0
                 THEN \* if not portfolio_values
                      _generate_fallback_data(months, seed)
                 ELSE
                 [src |-> "real",
                  dates |-> all_dates,
                  \* round((val / start_value) * 100, 2)
                  index_values |-> List([k \in 1..Len(all_dates) |->
                      LET g == GCD(den[1], den[k])
                      IN  RoundDiv(10000 * num[k] * (den[1] \div g),
                                   (den[k] \div g) * num[1])]),
                  \* round(val, 2)
                  portfolio_values |-> List([k \in 1..Len(all_dates) |->
                      RoundDiv(100 * num[k], den[k])])])))

(***************************************************************************)
(* Benchmark aligner: MarketDataService.fetch_benchmark_performance.       *)
(* A composite date string 'YYYY-MM-DD' is held as its day number;         *)
(* pd.to_datetime gives the tz-naive midnight of that day.  A timestamp of *)
(* the benchmark index is the local midnight of its date; tz_convert(None) *)
(* moves it to UTC, data.tz hours after the naive midnight of the date.    *)
(***************************************************************************)
HoursPerDay == 24

\* pd.to_datetime(date string): hours since the midnight of day 0
to_datetime(day) == day * HoursPerDay

\* x.tz_convert(None) if x.tz is not None else x
tz_convert_none(date, tz) == date * HoursPerDay + tz

\* abs(x - date_naive).days
DaysApart(date, tz, day) ==
    Abs(tz_convert_none(date, tz) - to_datetime(day)) \div HoursPerDay

\* min(available_dates, key=...): the first row with the least distance
ClosestRow(rows, tz, day) ==
    Local(List([i \in 1..Len(rows) |-> DaysApart(rows[i].date, tz, day)]),
          LAMBDA dist :
    Local(Range(dist), LAMBDA all :
    Local(CHOOSE m \in all : \A x \in all : m <= x, LAMBDA least :
        CHOOSE i \in 1..Len(rows) :
            /\ dist[i] = least
            /\ \A j \in 1..(i - 1) : dist[j] # least)))

\* a loop body that appends nothing for a date with no benchmark date
\* within the tolerance
AlignStepSkipping(rows, tz, day, prev) ==
    LET i == ClosestRow(rows, tz, day)
    IN  IF DaysApart(rows[i].date, tz, day) <= AlignTolerance
        THEN <<rows[i].price>>
        ELSE << >>

\* the body of the loop over portfolio_dates: what it appends when the
\* values so far end with prev (<< >>: no value so far)
AlignStep(rows, tz, day, prev) ==
    LET i == ClosestRow(rows, tz, day)
    IN  IF DaysApart(rows[i].date, tz, day) <= AlignTolerance
        THEN <<rows[i].price>>
        ELSE IF Len(prev) > 0
        THEN <<prev[Len(prev)]>>
        ELSE <<rows[1].price>>

\* the values the loop appends for the n dates from position k on (the
\* dates are taken in halves to keep the evaluation shallow)
RECURSIVE AlignLoop(_, _, _, _, _, _)
AlignLoop(rows, tz, dates, k, n, prev) ==
    IF n = 0 THEN << >>
    ELSE IF n = 1 THEN AlignStep(rows, tz, dates[k], prev)
    ELSE LET h == n \div 2
         IN  Local(AlignLoop(rows, tz, dates, k, h, prev),
                   LAMBDA a : a \o AlignLoop(rows, tz, dates, k + h, n - h,
                                             IF Len(a) > 0 THEN a ELSE prev))

\* round((val / start_value) * 100, 2) in hundredths; NaN spreads
NormalizeTo100(val, start_value) ==
    IF val = NaN \/ start_value = NaN THEN NaN
    ELSE RoundDiv(10000 * val, start_value)

\* fetch_benchmark_performance on cache c.  resp is what the data source
\* answers the fetch, malformed tells that a date string cannot be parsed
\* (pd.to_datetime raises), seed the run of draws of a fallback.  path names
\* the return statement taken, aligned the prices before normalisation.
fetch_benchmark_performance(c, benchmark_ticker, dates, months, resp, malformed, seed) ==
    IF Len(dates) = 0
    THEN [raised |-> FALSE, values |-> << >>, cache |-> c, path |-> "no_dates",
          aligned |-> << >>, prices |-> << >>]
    ELSE
    LET key == cache_key(benchmark_ticker, DefaultPeriod, get_optimal_interval(months),
                         dates[1], dates[Len(dates)])
        f == fetch_historical_data(c, key, resp)
        fallback(path) ==
            [raised |-> FALSE, values |-> _generate_fallback_benchmark(Len(dates), seed),
             cache |-> f.cache, path |-> path, aligned |-> << >>, prices |-> << >>]
    IN  IF f.raised THEN fallback("exception")
        ELSE IF f.value = None THEN fallback("no_data")
        ELSE IF IsEmpty(f.value) THEN fallback("no_data")
        ELSE IF ~HasPriceColumn(f.value) THEN fallback("no_column")
        ELSE LET prices == sample_rows(f.value.rows, months)
             IN  Local(AlignLoop(prices, f.value.tz, dates, 1, Len(dates), << >>),
                       LAMBDA benchmark_values :
                 IF malformed THEN fallback("exception")
                 ELSE IF Len(benchmark_values) = 0 THEN fallback("no_values")
                 ELSE [raised |-> FALSE,
                       values |-> List([k \in 1..Len(benchmark_values) |->
                                      NormalizeTo100(benchmark_values[k], benchmark_values[1])]),
                       cache |-> f.cache, path |-> "aligned",
                       aligned |-> benchmark_values, prices |-> prices])

(***************************************************************************)
(* Benchmark selection: constants.get_benchmark_for_portfolio.  A holding  *)
(* is a record [ticker, weight, country]; a key the request left out is    *)
(* Absent and a JSON null is Null.                                         *)
(***************************************************************************)
Absent == "<absent>"

Null == "<null>"

\* the entries of BENCHMARK_MAP the checked instances use
BENCHMARK_MAP ==
    [c \in {"US", "IN", "JP"} |->
        CASE c = "US" -> [name |-> "S&P 500", ticker |-> "^GSPC"]
          [] c = "IN" -> [name |-> "NIFTY 50", ticker |-> "^NSEI"]
          [] c = "JP" -> [name |-> "Nikkei 225", ticker |-> "^N225"]]

\* BENCHMARK_MAP.get("US", {"name": "S&P 500", "ticker": "^GSPC"})
DefaultBenchmark ==
    IF "US" \in DOMAIN BENCHMARK_MAP THEN BENCHMARK_MAP["US"]
    ELSE [name |-> "S&P 500", ticker |-> "^GSPC"]

\* len(country) > 2, for the country strings of the checked instances
LongerThanTwo(country) == country \in {"United States", "India"}

\* country.upper()
upper(country) ==
    CASE country = "us" -> "US"
      [] country = "in" -> "IN"
      [] country = "jp" -> "JP"
      [] OTHER -> country

\* the code a holding adds to the set countries
CountryCode(country) == IF LongerThanTwo(country) THEN "US" ELSE upper(country)

get_benchmark_for_portfolio(holdings) ==
    IF Len(holdings) = 0 THEN [raised |-> FALSE, value |-> DefaultBenchmark]
    ELSE IF \E i \in 1..Len(holdings) : holdings[i].country = Null
    THEN \* len(None): TypeError
         [raised |-> TRUE, value |-> None]
    ELSE LET countries == {CountryCode(holdings[i].country) :
                              i \in {j \in 1..Len(holdings) : holdings[j].country # Absent}}
         IN  IF Cardinality(countries) = 1
                /\ (CHOOSE c \in countries : TRUE) \in DOMAIN BENCHMARK_MAP
             THEN [raised |-> FALSE,
                   value |-> BENCHMARK_MAP[CHOOSE c \in countries : TRUE]]
             ELSE [raised |-> FALSE, value |-> DefaultBenchmark]

(***************************************************************************)
(* MarketDataService.calculate_portfolio_performance.                      *)
(***************************************************************************)
\* holding.get(key, default)
get(holding, key, default) ==
    IF key \in DOMAIN holding THEN holding[key] ELSE default

\* the filter with weight >= 0 in place of weight > 0
ValidHoldingFromZero(h) ==
    get(h, "ticker", Null) \notin {Absent, Null, ""} /\ get(h, "weight", 0) >= 0

\* if ticker and weight > 0
ValidHolding(h) ==
    get(h, "ticker", Null) \notin {Absent, Null, ""} /\ get(h, "weight", 0) > 0

\* the positions of the holdings that pass the filter, in order
ValidPositions(holdings) ==
    SelectSeq([i \in 1..Len(holdings) |-> i], LAMBDA i : ValidHolding(holdings[i]))

\* bulk and indiv are the answers of the data source to the batch fetch and
\* to individual fetches
calculate_portfolio_performance(c, holdings, months, bulk, indiv, seed) ==
    LET pos == ValidPositions(holdings)
        tickers == List([k \in 1..Len(pos) |-> get(holdings[pos[k]], "ticker", Null)])
        \* weight / 100.0, in hundredths
        weights == List([k \in 1..Len(pos) |-> get(holdings[pos[k]], "weight", 0)])
        start_str == Today - (months * DaysPerMonth + DaysPerMonth)
        end_str == Today
        optimal_interval == get_optimal_interval(months)
        keyOf == [t \in Range(tickers) |->
                    cache_key(t, DefaultPeriod, optimal_interval, start_str, end_str)]
    \* asked: the tickers handed to fetch_multiple_tickers
    IN  IF Len(tickers) = 0
        THEN [result |-> _generate_fallback_data(months, seed), cache |-> c,
              tickers |-> tickers, weights |-> weights, asked |-> << >>]
        ELSE Local(fetch_multiple_tickers(c, tickers, keyOf, bulk, indiv), LAMBDA f :
        IF f.raised \/ DOMAIN f.results = {}
        THEN [result |-> _generate_fallback_data(months, seed), cache |-> f.cache,
              tickers |-> tickers, weights |-> weights, asked |-> tickers]
        ELSE [result |-> _calculate_weighted_performance(f.results, tickers, weights,
                                                         months, seed),
              cache |-> f.cache,
              tickers |-> tickers, weights |-> weights, asked |-> tickers])

(***************************************************************************)
(* Statistics, by the fields a record carries:                             *)
(* MarketDataService.calculate_real_performance_stats,                     *)
(* PerformanceService.generate_stats and generate_benchmark_stats.         *)
(***************************************************************************)
BaseStatsFields ==
    {"total_return", "annualized_return", "volatility", "max_drawdown",
     "sharpe_ratio", "sortino_ratio"}

\* np.var(np.diff(p) / p[:-1]) > 0: a period return differs from the first
VariancePositive(p) ==
    /\ \A k \in 1..Len(p) : p[k] # NaN
    /\ \E i \in 3..Len(p) : p[i] * p[1] # p[2] * p[i - 1]

\* an entry of price_data that is no number (None, a string)
NotNumeric == 0 - 2

\* np.diff(prices) raises: an entry is no number
ComputationFails(price_data) ==
    \E k \in 1..Len(price_data) : price_data[k] = NotNumeric

\* the fields of the record; << >> stands for [] and for None
calculate_real_performance_stats(price_data, benchmark_data) ==
    IF Len(price_data) < 2 THEN {}
    ELSE IF ComputationFails(price_data) THEN {}
    ELSE BaseStatsFields \cup
         (IF /\ Len(benchmark_data) > 0
             /\ Len(benchmark_data) = Len(price_data)
             /\ Len(benchmark_data) - 1 > 1
             /\ VariancePositive(benchmark_data)
          THEN {"beta", "alpha", "correlation"}
          ELSE {})

(***************************************************************************)
(* The float64 arithmetic of the statistics, as far as it decides whether  *)
(* np.std(daily_returns) is 0.  A positive double is held as its 53        *)
(* significand bits, the first one 1, and the exponent of the last bit:    *)
(* [bits, exp] is the number bits (read in binary) * 2^exp.                *)
(***************************************************************************)
\* the significand of a float64 (np.array(price_data) has dtype float64)
SignificandBits == 53

Zeros(n) == [i \in 1..n |-> 0]

\* the bits of x + 1
Increment(x) ==
    IF \A i \in 1..Len(x) : x[i] = 1 THEN <<1>> \o Zeros(Len(x))
    ELSE [i \in 1..Len(x) |->
            IF \A j \in (i + 1)..Len(x) : x[j] = 1 THEN 1 - x[i] ELSE x[i]]

\* x without its leading zeros
Stripped(x) ==
    IF \A i \in 1..Len(x) : x[i] = 0 THEN << >>
    ELSE SubSeq(x, CHOOSE i \in 1..Len(x) : x[i] = 1 /\ \A j \in 1..(i - 1) : x[j] = 0,
                Len(x))

\* round to nearest, ties to even: the double nearest to (x + t) * 2^exp,
\* x a bit sequence that starts with 1, 0 <= t < 1, sticky = (t > 0)
RoundNearestEven(x, exp, sticky) ==
    IF Len(x) <= SignificandBits
    THEN [bits |-> x \o Zeros(SignificandBits - Len(x)),
          exp |-> exp - (SignificandBits - Len(x))]
    ELSE LET kept == SubSeq(x, 1, SignificandBits)
             dropped == SubSeq(x, SignificandBits + 1, Len(x))
             more == sticky \/ \E i \in 2..Len(dropped) : dropped[i] = 1
             up == dropped[1] = 1 /\ (more \/ kept[SignificandBits] = 1)
             rounded == IF up THEN Increment(kept) ELSE kept
         IN  IF Len(rounded) > SignificandBits
             THEN [bits |-> SubSeq(rounded, 1, SignificandBits),
                   exp |-> exp + Len(dropped) + 1]
             ELSE [bits |-> rounded \o << >>, exp |-> exp + Len(dropped)]

\* a / b = (a' / b') * 2^e with b' <= a' < 2 * b'
RECURSIVE Scaled(_, _, _)
Scaled(a, b, e) ==
    IF a < b THEN Scaled(2 * a, b, e - 1)
    ELSE IF a >= 2 * b THEN Scaled(a, 2 * b, e + 1)
    ELSE [a |-> a, b |-> b, e |-> e]

\* 2^k modulo n
RECURSIVE PowerOfTwoMod(_, _)
PowerOfTwoMod(k, n) ==
    IF k = 0 THEN 1 % n
    ELSE LET h == PowerOfTwoMod(k \div 2, n)
         IN  IF k % 2 = 0 THEN (h * h) % n ELSE (2 * h * h) % n

\* the number x[lo..hi] (read in binary) modulo n
RECURSIVE BitsMod(_, _, _, _)
BitsMod(x, lo, hi, n) ==
    IF lo > hi THEN 0
    ELSE IF lo = hi THEN x[lo] % n
    ELSE LET mid == (lo + hi) \div 2
         IN  (BitsMod(x, lo, mid, n) * PowerOfTwoMod(hi - mid, n)
              + BitsMod(x, mid + 1, hi, n)) % n

\* long division of rem / b (rem < b): the first k bits after the point and
\* the remainder left after them
QuotientBits(rem, b, k) ==
    [bits |-> [i \in 1..k |->
                 IF 2 * ((rem * PowerOfTwoMod(i - 1, b)) % b) >= b THEN 1 ELSE 0],
     rem |-> (rem * PowerOfTwoMod(k, b)) % b]

\* the double a / b of two positive whole doubles a and b
Quotient(a, b) ==
    Local(Scaled(a, b, 0), LAMBDA s :
    Local(QuotientBits(s.a - s.b, s.b, SignificandBits), LAMBDA q :
        RoundNearestEven(<<1>> \o q.bits, s.e - SignificandBits, q.rem # 0)))

\* the carry into position i when the bit sequences x and y are added
CarryInto(x, y, i) ==
    \E j \in (i + 1)..Len(x) :
        /\ x[j] + y[j] = 2
        /\ \A m \in (i + 1)..(j - 1) : x[m] + y[m] = 1

\* x + y of two bit sequences of one length, carry included
AddBits(x, y) ==
    (IF CarryInto(x, y, 0) THEN <<1>> ELSE << >>)
    \o [i \in 1..Len(x) |-> (x[i] + y[i] + (IF CarryInto(x, y, i) THEN 1 ELSE 0)) % 2]

\* the double x + y of two positive doubles, x.exp >= y.exp
Sum(x, y) ==
    LET shift == x.exp - y.exp
    IN  Local(AddBits(x.bits \o Zeros(shift), Zeros(shift) \o y.bits), LAMBDA t :
            RoundNearestEven(Stripped(t), y.exp, FALSE))

\* res = 0.; for each of the n values r: res += r   (np.add.reduce over
\* fewer than 8 values adds them in order)
RECURSIVE SumOfEqual(_, _)
SumOfEqual(r, n) ==
    IF n = 1 THEN r ELSE Local(SumOfEqual(r, n - 1), LAMBDA res : Sum(res, r))

\* long division of the bit sequence x by n: the quotient and the remainder
DividedBits(x, n) ==
    [bits |-> [i \in 1..Len(x) |->
                 IF 2 * BitsMod(x, 1, i - 1, n) + x[i] >= n THEN 1 ELSE 0],
     rem |-> BitsMod(x, 1, Len(x), n)]

\* the double x / n of a positive double and a count n >= 1
DividedBy(x, n) ==
    Local(DividedBits(x.bits \o Zeros(n), n), LAMBDA q :
        RoundNearestEven(Stripped(q.bits), x.exp - n, q.rem # 0))

\* arrmean = umr_sum(arr) / n for n values equal to the double a / b:
\* TRUE iff arr - arrmean is 0 everywhere
MeanOfEqualIsExact(a, b, n) ==
    \/ a = 0
    \/ Local(Quotient(a, b), LAMBDA r :
       Local(SumOfEqual(r, n), LAMBDA res : DividedBy(res, n) = r))

(***************************************************************************)
(* The values of the statistics a claim is about: max_drawdown in          *)
(* hundredths; sharpe_ratio and sortino_ratio as 0 or as the quotient of   *)
(* the excess return by a positive deviation.  The prices are whole        *)
(* numbers below 2^15, so two daily returns are the same double exactly    *)
(* when they are the same fraction.                                        *)
(***************************************************************************)
\* daily_returns = np.diff(prices) / prices[:-1], as fractions num / den
daily_returns(prices) ==
    List([i \in 1..(Len(prices) - 1) |->
            [num |-> prices[i + 1] - prices[i], den |-> prices[i]]])

SameReturn(x, y) == x.num * y.den = y.num * x.den

\* np.std(returns) > 0 for 1 to 7 returns: a return differs from arrmean
StdPositive(returns) ==
    IF \E i \in 2..Len(returns) : ~SameReturn(returns[i], returns[1]) THEN TRUE
    ELSE ~MeanOfEqualIsExact(Abs(returns[1].num), returns[1].den, Len(returns))

\* peak = np.maximum.accumulate(prices)
peak(prices, i) ==
    CHOOSE m \in {prices[j] : j \in 1..i} : \A j \in 1..i : prices[j] <= m

\* the drawdown measured as (peak - prices) / peak, largest value
max_drawdown_unsigned(prices) ==
    LET drawdown == {RoundDiv((peak(prices, i) - prices[i]) * 10000, peak(prices, i)) :
                        i \in 1..Len(prices)}
    IN  CHOOSE most \in drawdown : \A d \in drawdown : d <= most

\* round(np.min((prices - peak) / peak * 100), 2), in hundredths
max_drawdown(prices) ==
    LET drawdown == {0 - RoundDiv((peak(prices, i) - prices[i]) * 10000, peak(prices, i)) :
                        i \in 1..Len(prices)}
    IN  CHOOSE least \in drawdown : \A d \in drawdown : least <= d

\* the sign of annualized_return - risk_free_rate * 100, where
\* annualized_return = ((prices[-1] / prices[0]) ** (252 / len(prices)) - 1) * 100
\* and risk_free_rate = 0.02, for fewer than 252 prices: below 0 when the
\* series does not end above its start, above 0 when it ends more than 2 %
\* above; in between the sign needs the power itself
ExcessReturnSign(prices) ==
    CASE prices[Len(prices)] <= prices[1] -> 0 - 1
      [] 100 * prices[Len(prices)] > 102 * prices[1] -> 1

\* a ratio that is 0
NoRatio == [excess |-> 0, over |-> "none"]

\* round((annualized_return - risk_free_rate * 100) / deviation, 3) for a
\* deviation > 0; residue: the returns are all equal and the deviation is
\* what rounding left of it (below 10^-12), the quotient is far from 0
Ratio(prices, returns) ==
    [excess |-> ExcessReturnSign(prices),
     over |-> IF \A i \in 2..Len(returns) : SameReturn(returns[i], returns[1])
              THEN "residue" ELSE "spread"]

\* if annualized_volatility > 0: ... else: sharpe_ratio = 0
sharpe_ratio(prices) ==
    IF StdPositive(daily_returns(prices))
    THEN Ratio(prices, daily_returns(prices))
    ELSE NoRatio

sortino_ratio(prices) ==
    LET negative_returns == SelectSeq(daily_returns(prices), LAMBDA r : r.num < 0)
    IN  IF Len(negative_returns) > 0
        THEN IF StdPositive(negative_returns)
             THEN Ratio(prices, negative_returns)
             ELSE NoRatio
        ELSE sharpe_ratio(prices)

\* the body of the try block: raised, or the record by its fields and the
\* values of three of them
StatsBody(price_data, benchmark_data) ==
    IF Len(price_data) < 2
    THEN [raised |-> FALSE, fields |-> {}]
    ELSE IF ComputationFails(price_data)
    THEN [raised |-> TRUE, fields |-> {}]
    ELSE [raised |-> FALSE,
          fields |-> calculate_real_performance_stats(price_data, benchmark_data),
          max_drawdown |-> max_drawdown(price_data),
          sharpe_ratio |-> sharpe_ratio(price_data),
          sortino_ratio |-> sortino_ratio(price_data)]

\* the call without its except clause
StatsUncaught(price_data, benchmark_data) == StatsBody(price_data, benchmark_data)

\* try: ... except Exception as e: return {}
Stats(price_data, benchmark_data) ==
    Local(StatsBody(price_data, benchmark_data), LAMBDA body :
        IF body.raised THEN [raised |-> FALSE, fields |-> {}] ELSE body)

MockStatsFields == {"total_return", "max_drawdown", "sharpe_ratio", "volatility"}

\* generate_stats returning real_stats as it is, without 'if real_stats:'
generate_stats_unguarded(performance_data, use_real_data) ==
    IF use_real_data /\ performance_data # None
       /\ "index_values" \in DOMAIN performance_data
    THEN calculate_real_performance_stats(
              performance_data.index_values,
              IF "benchmark_values" \in DOMAIN performance_data
              THEN performance_data.benchmark_values ELSE << >>)
    ELSE MockStatsFields

\* performance_data is a payload or None
generate_stats(performance_data, use_real_data) ==
    IF use_real_data /\ performance_data # None
       /\ "index_values" \in DOMAIN performance_data
       /\ calculate_real_performance_stats(
              performance_data.index_values,
              \* performance_data.get("benchmark_values")
              IF "benchmark_values" \in DOMAIN performance_data
              THEN performance_data.benchmark_values ELSE << >>) # {}
    THEN MockStatsFields \cup {"beta", "alpha", "correlation"}
    ELSE MockStatsFields

\* info: the fields yfinance's info carries for the benchmark ticker
\* ({"error"}: fetch_financial_metrics caught an exception)
generate_benchmark_stats(performance_data, benchmark_ticker, use_real_data, info) ==
    IF use_real_data /\ benchmark_ticker # Null
    THEN MockStatsFields \cup {"beta"}
         \cup (info \cap {"pe_ratio", "dividend_yield", "market_cap", "price_to_book"})
    ELSE MockStatsFields

(***************************************************************************)
(* PerformanceService.generate_performance_data.                           *)
(***************************************************************************)
\* env: the answers of the outside world during one call: bulk, indiv (the
\* batch and individual fetches of the tickers), bench (the fetch of the
\* benchmark), seed (the draws of a fallback)
generate_performance_data(c, holdings, months, use_real_data, env) ==
    LET benchmark_info == get_benchmark_for_portfolio(holdings)
    IN  IF benchmark_info.raised THEN [raised |-> TRUE, value |-> None, cache |-> c]
        ELSE IF use_real_data /\ Len(holdings) > 0
        THEN Local(calculate_portfolio_performance(c, holdings, months, env.bulk,
                                                   env.indiv, env.seed),
                   LAMBDA p :
             Local(fetch_benchmark_performance(p.cache, benchmark_info.value.ticker,
                                               p.result.dates, months, env.bench,
                                               FALSE, env.seed),
                   LAMBDA b :
                 [raised |-> FALSE,
                  value |-> [kind |-> "payload",
                             dates |-> p.result.dates,
                             index_values |-> p.result.index_values,
                             benchmark_values |-> b.values,
                             benchmark_name |-> benchmark_info.value.name,
                             benchmark_ticker |-> benchmark_info.value.ticker,
                             src |-> p.result.src,
                             benchmark_path |-> b.path],
                  cache |-> b.cache]))
        ELSE \* logger.info("Generating mock performance data ..."): no return
             [raised |-> FALSE, value |-> None, cache |-> c]

(***************************************************************************)
(* The handler of POST /performance-data: index_routes.get_performance_data*)
(***************************************************************************)
\* {**performance_data, "stats": ..., "benchmark_stats": ...}
Combine(performance_data, stats, benchmark_stats) ==
    IF performance_data = None
    THEN \* TypeError: 'NoneType' object is not a mapping
         [raised |-> TRUE, value |-> None]
    ELSE [raised |-> FALSE,
          value |-> [performance_data |-> performance_data, stats |-> stats,
                     benchmark_stats |-> benchmark_stats]]

\* the except branch: a new PerformanceService and use_real_data=False
HandlerFallback(holdings, months, env) ==
    Local(generate_performance_data(EmptyCache, holdings, months, FALSE, env),
          LAMBDA d :
        IF d.raised THEN [raised |-> TRUE, value |-> None, cache |-> d.cache,
                          branch |-> "except"]
        ELSE LET r == Combine(d.value, generate_stats(d.value, FALSE),
                              generate_benchmark_stats(d.value, Null, FALSE, env.info))
             IN  [raised |-> r.raised, value |-> r.value, cache |-> d.cache,
                  branch |-> "except"])

get_performance_data(holdings, months, env) ==
    Local(generate_performance_data(EmptyCache, holdings, months, TRUE, env),
          LAMBDA d :
        IF d.raised THEN HandlerFallback(holdings, months, env)
        ELSE IF d.value = None
        THEN \* performance_data.get(...): AttributeError on None
             HandlerFallback(holdings, months, env)
        ELSE LET r == Combine(d.value, generate_stats(d.value, TRUE),
                              generate_benchmark_stats(d.value, d.value.benchmark_ticker,
                                                       TRUE, env.info))
             IN  [raised |-> r.raised, value |-> r.value, cache |-> d.cache,
                  branch |-> "try"])

(***************************************************************************)
(* State after construction: MarketDataService.__init__ sets cache = {}.   *)
(***************************************************************************)
Init ==
    /\ cache = EmptyCache
    /\ op = "idle"
    /\ inp = None
    /\ out = None

\* The caller takes the result of the finished call; the service object and
\* its cache stay.
Return ==
    /\ op # "idle"
    /\ op' = "idle"
    /\ inp' = None
    /\ out' = None
    /\ UNCHANGED cache

(***************************************************************************)
(* A call of the sampling policy for horizon months on a raw series.       *)
(***************************************************************************)
SamplingCall ==
    /\ op = "idle"
    /\ \E months \in MinMonths..MaxMonths, n \in 0..MaxRows :
        LET data == Frame("Close", 0, RowsFrom(FirstDay, n, FirstDay - 1, "up"))
        IN  /\ op' = "sample"
            /\ inp' = [months |-> months, data |-> data]
            /\ out' = [interval |-> get_optimal_interval(months),
                       sampled |-> sample_data_for_performance(data, months)]
            /\ UNCHANGED cache

NextSampling == SamplingCall \/ Return

SpecSampling == Init /\ [][NextSampling]_vars

(***************************************************************************)
(* Calls of the data source adapter on the cache of one service object.    *)
(***************************************************************************)
Tickers == {"A", "B"}

TickerLists == {<<"A">>, <<"B">>, <<"A", "B">>}

EmptyFrame == Frame("Close", 0, << >>)

\* short frames the data source answers in the adapter's own checks
ShortFrames == {Frame("Close", 0, RowsFrom(FirstDay, ShortRows, FirstDay - 1, pat)) : pat \in {"flat", "up"}}

NaNFrame == Frame("Close", 0, [i \in 1..ShortRows |-> [date |-> FirstDay + i - 1, price |-> NaN]])

\* what a history() call may be answered, with its cause
SourceOutcomes ==
    {[cause |-> "network_error", resp |-> SourceError],
     [cause |-> "unknown_ticker", resp |-> SourceError],
     [cause |-> "unknown_ticker", resp |-> EmptyFrame],
     [cause |-> "empty_result", resp |-> EmptyFrame]}
    \cup {[cause |-> "data", resp |-> f] : f \in ShortFrames}

IndividualAnswers == {SourceError, EmptyFrame} \cup ShortFrames

\* what yf.download may answer for the list tickers
BulkAnswers(tickers) ==
    {SourceError} \cup
    IF Len(tickers) = 1
    THEN {[kind |-> "bulk", per |-> (tickers[1] :> f)] : f \in {EmptyFrame} \cup ShortFrames}
    ELSE UNION {{[kind |-> "bulk", per |-> per] :
                    per \in [present -> {EmptyFrame, NaNFrame} \cup ShortFrames]} :
                present \in SUBSET Range(tickers)}

FetchHistoricalCall ==
    /\ op = "idle"
    /\ \E t \in Tickers, o \in SourceOutcomes :
        LET key == cache_key(t, DefaultPeriod, "1d", FirstDay, Today)
            r == fetch_historical_data(cache, key, o.resp)
        IN  /\ op' = "fetch"
            /\ inp' = [ticker |-> t, key |-> key, cause |-> o.cause, resp |-> o.resp,
                       hit |-> key \in DOMAIN cache]
            /\ out' = [raised |-> r.raised, value |-> r.value, asked |-> r.asked]
            /\ cache' = r.cache

FetchMultipleCall ==
    /\ op = "idle"
    /\ \E tickers \in TickerLists :
      \E bulk \in BulkAnswers(tickers), indiv \in [Tickers -> IndividualAnswers] :
        LET keyOf == [t \in Tickers |-> cache_key(t, DefaultPeriod, "1d", FirstDay, Today)]
            r == fetch_multiple_tickers(cache, tickers, keyOf, bulk, indiv)
        IN  /\ op' = "batch"
            /\ inp' = [tickers |-> tickers, bulk |-> bulk, indiv |-> indiv,
                       cached |-> {t \in Tickers : keyOf[t] \in DOMAIN cache}]
            /\ out' = [raised |-> r.raised, results |-> r.results, retried |-> r.retried]
            /\ cache' = r.cache

(***************************************************************************)
(* Calls of the composite aggregator.  The frames by ticker are what the   *)
(* batch fetch handed over: a ticker may be absent, its frame may lack a   *)
(* price column or hold NaN only, or hold a daily series that starts on    *)
(* FirstDay or the day after, of 9, 10, 19 or FullRows rows, with or       *)
(* without a missing day.                                                  *)
(***************************************************************************)
RowCounts == {MinCommonDates - 1, MinCommonDates, 2 * MinCommonDates - 1, FullRows}

SeriesFrames(tz) ==
    {Frame(cp[1], tz, RowsFrom(lo, n, gap, cp[2])) :
        lo \in {FirstDay, FirstDay + 1}, n \in RowCounts,
        gap \in {FirstDay - 1, FirstDay + 4},
        cp \in {<<"Adj Close", "up">>, <<"Close", "down">>}}

NoColumnFrame == Frame("none", 0, RowsFrom(FirstDay, FullRows, FirstDay - 1, "flat"))

NaNOnlyFrame == Frame("Close", 0, [i \in 1..FullRows |-> [date |-> FirstDay + i - 1, price |-> NaN]])

\* the series of the two-ticker example: 100 then 110, 100 then 90
ExampleFrames ==
    {Frame("Close", 0, RowsFrom(FirstDay, FullRows, FirstDay - 1, pat)) : pat \in {"gain", "loss"}}

TickerFrames == SeriesFrames(0) \cup ExampleFrames \cup {NoColumnFrame, NaNOnlyFrame}

\* the mappings ticker -> frame over a subset of the tickers
TickerData == UNION {[present -> TickerFrames] : present \in SUBSET Tickers}

WeightedCall ==
    /\ op = "idle"
    /\ \E ticker_data \in TickerData, months \in Horizons, seed \in Seeds :
        LET tickers == <<"A", "B">>
            weights == <<60, 40>>
            r == _calculate_weighted_performance(ticker_data, tickers, weights, months, seed)
            c == CollectPrices(ticker_data, tickers, months, 1,
                    [ticker_prices |-> EmptyResults, all_dates |-> {}, none |-> TRUE])
        IN  /\ op' = "weighted"
            /\ inp' = [ticker_data |-> ticker_data, tickers |-> tickers,
                       weights |-> weights, months |-> months]
            /\ out' = [result |-> r, ticker_prices |-> c.ticker_prices]
            /\ UNCHANGED cache

NextWeighted == WeightedCall \/ Return

SpecWeighted == Init /\ [][NextWeighted]_vars

(***************************************************************************)
(* Calls of the benchmark aligner on the service of one request.  The      *)
(* composite dates are none, FullRows successive days or every 2nd day;    *)
(* the benchmark frame may be missing, lack a price column, be tz-naive or *)
(* tz-aware, start on the first composite date, a day or five days later,  *)
(* and miss a day.                                                         *)
(***************************************************************************)
\* the shift of tz_convert(None): tz-naive or UTC, America/New_York (EST)
TzShifts == {0, 5}

DateLists ==
    {<< >>,
     [i \in 1..FullRows |-> FirstDay + i - 1],
     [i \in 1..((FullRows + 1) \div 2) |-> FirstDay + 2 * (i - 1)]}

BenchmarkFrames ==
    {Frame("Close", tz, RowsFrom(lo, n, gap, pat)) :
        tz \in TzShifts, lo \in {FirstDay, FirstDay + 1, FirstDay + 5},
        n \in {MinCommonDates, FullRows}, gap \in {FirstDay - 1, FirstDay + 4},
        pat \in {"up", "down"}}
    \cup {Frame("Adj Close", 0, RowsFrom(FirstDay, FullRows, FirstDay - 1, "up")),
          NoColumnFrame, NaNOnlyFrame}

BenchmarkAnswers == {SourceError, EmptyFrame} \cup BenchmarkFrames

BenchmarkCall ==
    /\ op = "idle"
    /\ \E dates \in DateLists, months \in Horizons, resp \in BenchmarkAnswers,
       malformed \in BOOLEAN, seed \in Seeds :
        LET r == fetch_benchmark_performance(cache, "^GSPC", dates, months, resp,
                                             malformed, seed)
        IN  /\ op' = "benchmark"
            /\ inp' = [dates |-> dates, months |-> months, resp |-> resp,
                       malformed |-> malformed]
            /\ out' = [raised |-> r.raised, values |-> r.values, path |-> r.path,
                       aligned |-> r.aligned, prices |-> r.prices]
            /\ cache' = r.cache

\* The request ends: its PerformanceService, the MarketDataService in it and
\* the cache of that service are dropped (index_routes.py builds a new
\* PerformanceService for every request).
RequestEnd ==
    /\ op \notin {"idle", "perf_called", "request_called"}
    /\ op' = "idle"
    /\ inp' = None
    /\ out' = None
    /\ cache' = EmptyCache

NextBenchmark == BenchmarkCall \/ RequestEnd

SpecBenchmark == Init /\ [][NextBenchmark]_vars

(***************************************************************************)
(* Requests.  The holdings lists cover no holding, one and two valid       *)
(* holdings, a holding without ticker, with weight 0 and below, mixed and  *)
(* lower-case countries, a country name, no country and a null country.    *)
(***************************************************************************)
Holding(ticker, weight, country) == [ticker |-> ticker, weight |-> weight, country |-> country]

HoldingsLists ==
    {<< >>,
     <<Holding("A", 100, "US")>>,
     <<Holding("A", 60, "US"), Holding("B", 40, "US")>>,
     <<Holding("A", 60, "in"), Holding("B", 40, "IN")>>,
     <<Holding("A", 60, "US"), Holding("B", 40, "JP")>>,
     <<Holding("A", 50, "United States"), Holding(Absent, 50, "US")>>,
     <<Holding("A", 0, "US"), Holding("B", 0 - 5, "US")>>,
     <<Holding("A", 100, Absent)>>,
     <<Holding("A", 100, Null)>>}

\* the answers of the outside world to one request
RequestBulk ==
    LET full == Frame("Close", 0, RowsFrom(FirstDay, FullRows, FirstDay - 1, "up"))
        short == Frame("Close", 0, RowsFrom(FirstDay + 1, MinCommonDates - 1,
                                            FirstDay - 1, "down"))
    IN  {SourceError,
         [kind |-> "bulk", per |-> [t \in Tickers |-> full]],
         [kind |-> "bulk", per |-> [t \in Tickers |-> IF t = "A" THEN full ELSE short]],
         [kind |-> "bulk", per |-> [t \in Tickers |-> EmptyFrame]]}

RequestIndividual ==
    {[t \in Tickers |-> SourceError],
     [t \in Tickers |-> Frame("Close", 0, RowsFrom(FirstDay, FullRows, FirstDay - 1, "flat"))]}

RequestBenchmark ==
    {SourceError, NoColumnFrame}
    \cup {Frame("Close", tz, RowsFrom(FirstDay, FullRows, FirstDay - 1, "up")) : tz \in TzShifts}

Environments ==
    [bulk : RequestBulk, indiv : RequestIndividual, bench : RequestBenchmark,
     seed : {0, 1}, info : {{"error"}, {"pe_ratio", "market_cap"}}]

\* PerformanceService.generate_performance_data is called on a new service
GeneratePerformanceDataCall ==
    /\ op = "idle"
    /\ \E holdings \in HoldingsLists, months \in Horizons, use_real_data \in BOOLEAN :
        /\ op' = "perf_called"
        /\ inp' = [holdings |-> holdings, months |-> months,
                   use_real_data |-> use_real_data]
        /\ UNCHANGED <<cache, out>>

\* the call runs, the outside world answering env, and returns
GeneratePerformanceDataRun ==
    /\ op = "perf_called"
    /\ \E env \in Environments :
        LET r == generate_performance_data(cache, inp.holdings, inp.months,
                                           inp.use_real_data, env)
        IN  /\ op' = "perf"
            /\ out' = [raised |-> r.raised, value |-> r.value]
            /\ cache' = r.cache
            /\ UNCHANGED inp

\* a POST /performance-data request arrives
PerformanceDataRequest ==
    /\ op = "idle"
    /\ \E holdings \in HoldingsLists, months \in Horizons :
        /\ op' = "request_called"
        /\ inp' = [holdings |-> holdings, months |-> months]
        /\ UNCHANGED <<cache, out>>

\* the handler runs, the outside world answering env, and the request ends
\* in a response or in an exception
PerformanceDataHandle ==
    /\ op = "request_called"
    /\ \E env \in Environments :
        LET r == get_performance_data(inp.holdings, inp.months, env)
        IN  /\ op' = "request"
            /\ out' = [raised |-> r.raised, value |-> r.value, branch |-> r.branch]
            /\ cache' = r.cache
            /\ UNCHANGED inp

Next ==
    \/ GeneratePerformanceDataCall
    \/ GeneratePerformanceDataRun
    \/ PerformanceDataRequest
    \/ PerformanceDataHandle
    \/ RequestEnd

Spec == Init /\ [][Next]_vars

(***************************************************************************)
(* The same call made twice on one service: generate_performance_data runs *)
(* with the answers first of the outside world, then again, on the cache   *)
(* the first run left, with the answers second.                            *)
(***************************************************************************)
RepeatEnvironments ==
    [bulk : RequestBulk, indiv : RequestIndividual,
     bench : {SourceError, Frame("Close", 0, RowsFrom(FirstDay, FullRows, FirstDay - 1, "up"))},
     seed : {0}, info : {{"error"}}]

GeneratePerformanceDataRunTwice ==
    /\ op = "perf_called"
    /\ \E first \in RepeatEnvironments, second \in RepeatEnvironments :
        \E r1 \in {generate_performance_data(cache, inp.holdings, inp.months,
                                             inp.use_real_data, first)} :
        \E r2 \in {generate_performance_data(r1.cache, inp.holdings, inp.months,
                                             inp.use_real_data, second)} :
            /\ op' = "perf_twice"
            /\ out' = [raised |-> r1.raised \/ r2.raised, first |-> r1.value,
                       second |-> r2.value, cached |-> DOMAIN r1.cache]
            /\ cache' = r2.cache
            /\ UNCHANGED inp

NextRepeat == GeneratePerformanceDataCall \/ GeneratePerformanceDataRunTwice \/ RequestEnd

SpecRepeat == Init /\ [][NextRepeat]_vars

(***************************************************************************)
(* Calls of calculate_portfolio_performance on the service of a request.   *)
(* The holdings lists mix valid holdings with holdings that lack the       *)
(* ticker or the weight, have an empty or null ticker, or a weight of 0    *)
(* or below.                                                               *)
(***************************************************************************)
PortfolioHoldings ==
    {<< >>,
     <<Holding("A", 100, "US")>>,
     <<Holding("A", 60, "US"), Holding("B", 40, "US")>>,
     <<Holding("B", 30, "US"), Holding("A", 70, "US")>>,
     <<Holding("A", 50, "US"), Holding("", 50, "US")>>,
     <<Holding(Null, 50, "US"), Holding("B", 50, "US")>>,
     <<[weight |-> 50, country |-> "US"], Holding("B", 50, "US")>>,
     <<Holding("A", 0, "US"), Holding("B", 100, "US")>>,
     <<Holding("A", 100, "US"), Holding("B", 0 - 5, "US")>>,
     <<Holding("A", 100, "US"), [ticker |-> "B", country |-> "US"]>>,
     <<Holding("A", 0, "US"), Holding("B", 0 - 5, "US")>>,
     <<[ticker |-> "A", country |-> "US"], Holding("", 10, "US")>>}

PortfolioCall ==
    /\ op = "idle"
    /\ \E holdings \in PortfolioHoldings, months \in Horizons,
          bulk \in RequestBulk, indiv \in RequestIndividual, seed \in Seeds :
        \E r \in {calculate_portfolio_performance(cache, holdings, months, bulk,
                                                   indiv, seed)} :
            /\ op' = "portfolio"
            /\ inp' = [holdings |-> holdings, months |-> months]
            /\ out' = [raised |-> FALSE, tickers |-> r.tickers, weights |-> r.weights,
                       asked |-> r.asked, result |-> r.result]
            /\ cache' = r.cache

NextPortfolio == PortfolioCall \/ RequestEnd

SpecPortfolio == Init /\ [][NextPortfolio]_vars

(***************************************************************************)
(* Calls of the statistics engine: calculate_real_performance_stats on a   *)
(* price series and a benchmark series, and generate_stats on a payload.   *)
(* The series hold 0 to MaxPoints prices of a geometric ladder from 1000,  *)
(* so that they rise or fall by one rate, stay flat, or mix; the benchmark *)
(* is missing, of the same length or one shorter.                          *)
(***************************************************************************)
MaxPoints == 4

LadderPrices == {1000, 1100, 1210, 1331}

RECURSIVE SeriesOf(_)
SeriesOf(n) ==
    IF n = 0 THEN {<< >>}
    ELSE {Append(p, x) : p \in SeriesOf(n - 1), x \in LadderPrices}

PriceSeries ==
    UNION {SeriesOf(n) : n \in 0..MaxPoints}
    \cup {<<1000, NotNumeric>>, <<NotNumeric, 1000, 1100>>}

BenchmarksFor(price_data) ==
    {<< >>}
    \cup {[i \in 1..Len(price_data) |-> 1000]}
    \cup {[i \in 1..Len(price_data) |-> 1000 + 100 * (i % 2)]}
    \cup {[i \in 1..(Len(price_data) - 1) |-> 1000 + 100 * (i % 2)]}

StatsCall ==
    /\ op = "idle"
    /\ \E price_data \in PriceSeries :
       \E benchmark_data \in BenchmarksFor(price_data) :
        \E r \in {Stats(price_data, benchmark_data)} :
            /\ op' = "stats"
            /\ inp' = [price_data |-> price_data, benchmark_data |-> benchmark_data]
            /\ out' = r
            /\ UNCHANGED cache

\* the payloads handed to generate_stats: none, one without index_values,
\* one without benchmark_values, complete ones
StatsPayloads ==
    {None, [dates |-> << >>], [index_values |-> <<1000, NotNumeric>>]}
    \cup {[index_values |-> p] : p \in SeriesOf(0) \cup SeriesOf(1) \cup SeriesOf(2)}
    \cup {[index_values |-> p, benchmark_values |-> b] :
             p \in SeriesOf(3), b \in {<<1000, 1000, 1000>>, <<1000, 1100, 1000>>, <<1000, 1100>>}}

GenerateStatsCall ==
    /\ op = "idle"
    /\ \E performance_data \in StatsPayloads, use_real_data \in BOOLEAN :
        /\ op' = "generate_stats"
        /\ inp' = [performance_data |-> performance_data, use_real_data |-> use_real_data]
        /\ out' = [raised |-> FALSE, fields |-> generate_stats(performance_data, use_real_data)]
        /\ UNCHANGED cache

NextStats == StatsCall \/ GenerateStatsCall \/ Return

SpecStats == Init /\ [][NextStats]_vars

(***************************************************************************)
(* Calls of get_benchmark_for_portfolio.  The holdings carry a country     *)
(* code of the map in upper or lower case, a code the map lacks, a country *)
(* name, no country key, or a null country; twin is a list with the same   *)
(* countries and other tickers and weights.                                *)
(***************************************************************************)
MaxHoldings == 3

CountryValues == {"US", "IN", "JP", "in", "India", "XX", Absent, Null}

RECURSIVE CountryLists(_)
CountryLists(n) ==
    IF n = 0 THEN {<< >>}
    ELSE {Append(l, c) : l \in CountryLists(n - 1), c \in CountryValues}

BenchmarkForPortfolioCall ==
    /\ op = "idle"
    /\ \E n \in 0..MaxHoldings : \E countries \in CountryLists(n) :
        LET holdings == [i \in 1..n |-> Holding("A", 50, countries[i])]
            twin == [i \in 1..n |-> Holding("B", 10 * i, countries[i])]
            r == get_benchmark_for_portfolio(holdings)
        IN  /\ op' = "select"
            /\ inp' = [holdings |-> holdings, twin |-> twin]
            /\ out' = [raised |-> r.raised, value |-> r.value,
                       twin |-> get_benchmark_for_portfolio(twin).value]
            /\ UNCHANGED cache

NextSelect == BenchmarkForPortfolioCall \/ Return

SpecSelect == Init /\ [][NextSelect]_vars

(***************************************************************************)
(* LLM client: llm._get_llm_response_cached under functools.lru_cache.     *)
(* In SpecLLM the variable cache is the store of that decorator: entries   *)
(* is its list of prompts with their texts, least recently used first.     *)
(* delivered and since are history: the text of the last successful call   *)
(* for prompt 0, and the number of other prompts answered since that call  *)
(* (counted up to maxsize).  Prompts are numbers: prompt 0 is asked again  *)
(* and again, every other prompt is new when it is asked.                  *)
(***************************************************************************)
MAX_RETRIES == 3

INITIAL_RETRY_DELAY == 20

RETRY_BACKOFF_MULTIPLIER == 2

\* @lru_cache(maxsize=100)
maxsize == 100

MaxPrompt == 100

\* an attempt that raised
Failure == "<failure>"

Texts == {"a", "b"}

\* what the LLM does on the successive invocations of one call: it fails k
\* times and answers with one text from then on
LLMAnswers(texts) ==
    {[i \in 1..(MAX_RETRIES + 1) |-> IF i <= k THEN Failure ELSE t] :
        k \in 0..(MAX_RETRIES + 1), t \in texts}

\* retry_delay *= RETRY_BACKOFF_MULTIPLIER, without the multiplication
BackoffFlat(retry_delay) == retry_delay

\* retry_delay *= RETRY_BACKOFF_MULTIPLIER
Backoff(retry_delay) == retry_delay * RETRY_BACKOFF_MULTIPLIER

\* the for loop of _get_llm_response_cached from iteration attempt on; log
\* lists the invocations of the LLM and the sleeps in order, last_exception
\* is the number of the attempt whose failure is held (0: None)
RECURSIVE Attempts(_, _, _, _, _)
Attempts(attempt, retry_delay, last_exception, answers, log) ==
    IF attempt >= MAX_RETRIES
    THEN [raised |-> TRUE, text |-> Null, last_exception |-> last_exception, log |-> log]
    ELSE IF answers[attempt + 1] # Failure
    THEN [raised |-> FALSE, text |-> answers[attempt + 1], last_exception |-> 0,
          log |-> Append(log, [event |-> "invoke", seconds |-> 0])]
    ELSE IF attempt < MAX_RETRIES - 1
    THEN Attempts(attempt + 1, Backoff(retry_delay), attempt + 1, answers,
                  log \o <<[event |-> "invoke", seconds |-> 0],
                           [event |-> "sleep", seconds |-> retry_delay]>>)
    ELSE Attempts(attempt + 1, retry_delay, attempt + 1, answers,
                  Append(log, [event |-> "invoke", seconds |-> 0]))

\* the prompts the decorator holds a text for
Cached(entries) == {entries[i].prompt : i \in 1..Len(entries)}

CachedText(entries, prompt) ==
    entries[CHOOSE i \in 1..Len(entries) : entries[i].prompt = prompt].text

\* the decorator without the store: every call runs the function
_get_llm_response_uncached(entries, prompt, answers) ==
    LET r == Attempts(0, INITIAL_RETRY_DELAY, 0, answers, << >>)
    IN  [raised |-> r.raised, text |-> r.text, last_exception |-> r.last_exception,
         log |-> r.log, entries |-> entries]

\* the decorated function: a hit returns the stored text and makes the entry
\* the most recently used; a miss runs the function, stores its text, and
\* drops the least recently used entry of a full store; a raise stores nothing
_get_llm_response_cached(entries, prompt, answers) ==
    IF prompt \in Cached(entries)
    THEN [raised |-> FALSE, text |-> CachedText(entries, prompt), last_exception |-> 0,
          log |-> << >>,
          entries |-> Append(SelectSeq(entries, LAMBDA e : e.prompt # prompt),
                             [prompt |-> prompt, text |-> CachedText(entries, prompt)])]
    ELSE LET r == Attempts(0, INITIAL_RETRY_DELAY, 0, answers, << >>)
         IN  [raised |-> r.raised, text |-> r.text, last_exception |-> r.last_exception,
              log |-> r.log,
              entries |-> IF r.raised THEN entries
                          ELSE Append(IF Len(entries) >= maxsize THEN Tail(entries) ELSE entries,
                                      [prompt |-> prompt, text |-> r.text])]

\* a prompt no call has been answered for yet
FreshPrompt(entries) ==
    1 + (CHOOSE m \in Cached(entries) \cup {0} : \A p \in Cached(entries) : p <= m)

InitLLM ==
    /\ cache = [entries |-> << >>, delivered |-> Null, since |-> 0]
    /\ op = "idle"
    /\ inp = None
    /\ out = None

LLMCall ==
    /\ op = "idle"
    /\ \E prompt \in {0, FreshPrompt(cache.entries)} \cap 0..MaxPrompt :
       \E answers \in LLMAnswers(IF prompt = 0 THEN Texts ELSE {"a"}) :
       \E r \in {_get_llm_response_cached(cache.entries, prompt, answers)} :
          /\ op' = "llm"
          /\ inp' = [prompt |-> prompt, answers |-> answers]
          /\ out' = [raised |-> r.raised, text |-> r.text,
                     last_exception |-> r.last_exception, log |-> r.log]
          /\ cache' = [entries |-> r.entries,
                       delivered |-> IF prompt = 0 /\ ~r.raised THEN r.text
                                     ELSE cache.delivered,
                       since |-> IF r.raised \/ cache.delivered = Null THEN cache.since
                                 ELSE IF prompt = 0 THEN 0
                                 ELSE Min(cache.since + 1, maxsize)]

NextLLM == LLMCall \/ Return

SpecLLM == InitLLM /\ [][NextLLM]_vars

(***************************************************************************)
(* Weight normalisation: IndexGeneratorService.normalize_weights and       *)
(* ValidationService.validate_holdings_weights.  A weight is a fraction    *)
(* num / den of hundredths of a percent (100.00 is 10000 / 1).  What the   *)
(* float arithmetic decides where the exact value sits on a boundary is    *)
(* an input: ties gives the direction round() takes on an exact half, and  *)
(* a side tells where a float lies whose exact value equals the bound.     *)
(***************************************************************************)
Fraction(num, den) == [num |-> num, den |-> den]

Plus(a, b) == Fraction(a.num * b.den + b.num * a.den, a.den * b.den)

\* sum(holding.weight for holding in holdings), over the first n holdings
RECURSIVE WeightSum(_, _)
WeightSum(holdings, n) ==
    IF n = 0 THEN Fraction(0, 1) ELSE Plus(WeightSum(holdings, n - 1), holdings[n].weight)

\* abs(total - 100.0)
OffHundred(total) == Fraction(Abs(total.num - 10000 * total.den), total.den)

Sides == {"below", "equal", "above"}

\* a < b / 100 in floats
LessThan(a, b, side) ==
    \/ a.num * b.den < b.num * a.den
    \/ a.num * b.den = b.num * a.den /\ side = "below"

\* a > b / 100 in floats
GreaterThan(a, b, side) ==
    \/ a.num * b.den > b.num * a.den
    \/ a.num * b.den = b.num * a.den /\ side = "above"

\* round(num / den, 2) for den > 0, in hundredths
round(num, den, up) ==
    LET low == num \div den
        rest == num % den
    IN  IF 2 * rest > den \/ (2 * rest = den /\ up) THEN low + 1 ELSE low

\* max(holdings, key=lambda h: h.weight): the first of the largest
Largest(holdings) ==
    CHOOSE i \in 1..Len(holdings) :
        /\ \A j \in 1..Len(holdings) :
              ~LessThan(holdings[i].weight, holdings[j].weight, "equal")
        /\ \A j \in 1..(i - 1) :
              LessThan(holdings[j].weight, holdings[i].weight, "equal")

\* the fallback left out: the scaled weights stay
_leave_scaled(holdings, ties) == holdings

_force_exact_100_percent(holdings, ties) ==
    IF Len(holdings) = 0 THEN holdings
    ELSE LET largest == Largest(holdings)
             current_total == WeightSum(holdings, Len(holdings))
             \* 100.0 - current_total
             adjustment == Fraction(10000 * current_total.den - current_total.num,
                                    current_total.den)
             moved == Plus(holdings[largest].weight, adjustment)
         IN  [holdings EXCEPT ![largest].weight =
                 Fraction(round(moved.num, moved.den, ties[largest]), 1)]

normalize_weights(holdings, ties, total_side, new_side) ==
    IF Len(holdings) = 0 THEN holdings
    ELSE LET total_weight == WeightSum(holdings, Len(holdings))
         IN  IF LessThan(total_weight, Fraction(1, 1), total_side)
             THEN \* equal_weight = 100.0 / len(holdings)
                  [i \in 1..Len(holdings) |->
                      [holdings[i] EXCEPT !.weight = Fraction(10000, Len(holdings))]]
             ELSE IF LessThan(OffHundred(total_weight), Fraction(1, 10), total_side)
             THEN holdings
             ELSE LET \* round(holding.weight * (100.0 / total_weight), 2)
                      scaled == [i \in 1..Len(holdings) |->
                          [holdings[i] EXCEPT !.weight =
                              Fraction(round(holdings[i].weight.num * 10000 * total_weight.den,
                                             holdings[i].weight.den * total_weight.num,
                                             ties[i]), 1)]]
                      new_total == WeightSum(scaled, Len(scaled))
                  IN  IF ~LessThan(OffHundred(new_total), Fraction(1, 1), new_side)
                      THEN _force_exact_100_percent(scaled, ties)
                      ELSE scaled

\* validate_holdings_weights: "accepted", or what it raises
validate_holdings_weights(holdings, side) ==
    IF GreaterThan(OffHundred(WeightSum(holdings, Len(holdings))), Fraction(1, 1), side)
    THEN "HTTPException"
    ELSE "accepted"

\* the weights of the checked lists, in hundredths of a percent
WeightChoices == {0 - 5000, 0, 1, 100, 3333, 3999, 5000}

TickerNames == <<"A", "B", "C", "D">>

RECURSIVE HoldingLists(_)
HoldingLists(n) ==
    IF n = 0 THEN {<< >>}
    ELSE {Append(l, [ticker |-> TickerNames[n], weight |-> Fraction(w, 1)]) :
             l \in HoldingLists(n - 1), w \in WeightChoices}

\* normalize_weights on a list of holdings, then validate_holdings_weights on
\* the result; the sum the validator takes of weights that were scaled and
\* left is the float normalize_weights took, on the same side of the bound
NormalizeCall ==
    /\ op = "idle"
    /\ \E n \in 1..MaxHoldings : \E holdings \in HoldingLists(n) :
       \E ties \in [1..n -> BOOLEAN], total_side \in Sides, new_side \in Sides :
       \E r \in {normalize_weights(holdings, ties, total_side, new_side)} :
          /\ op' = "normalize"
          /\ inp' = [holdings |-> holdings, ties |-> ties,
                     total_side |-> total_side, new_side |-> new_side]
          /\ out' = [holdings |-> r, validated |-> validate_holdings_weights(r, new_side)]
          /\ UNCHANGED cache

NextNormalize == NormalizeCall \/ Return

SpecNormalize == Init /\ [][NextNormalize]_vars

(***************************************************************************)
(* Fund overlap: FundMappingService.map_tickers_to_funds.  Percentages are *)
(* in thousandths of a percent (0.1 is 100); the percentages of the        *)
(* checked funds have sums that are no exact half of a hundredth.          *)
(***************************************************************************)
\* self.ticker_mapping: symbol and yfinance ticker -> company name
ticker_mapping ==
    [t \in {"HDFCBANK", "HDFCBANK.NS", "RELIANCE.NS"} |->
        IF t = "RELIANCE.NS" THEN "Reliance" ELSE "HDFC Bank"]

\* holding.get('type', '').strip().lower()
TypeOf(holding) ==
    IF "type" \notin DOMAIN holding THEN ""
    ELSE CASE holding.type \in {"Equity", " equity "} -> "equity"
           [] OTHER -> "debt"

\* the test of line 188: the holding is skipped
Skipped(holding) ==
    TypeOf(holding) # "equity" \/ get(holding, "is_derivative", FALSE)

\* the inner loop without its break: every requested ticker of the company
\* of the holding counts
MatchesAll(holding, valid_tickers, ticker_to_company) ==
    IF Skipped(holding) THEN << >>
    ELSE SelectSeq(valid_tickers,
                   LAMBDA t : ticker_to_company[t] = get(holding, "company", ""))

\* the inner loop over valid_tickers: the first ticker whose company is the
\* company of the holding, as a list of at most one ticker
Matches(holding, valid_tickers, ticker_to_company) ==
    IF Skipped(holding) THEN << >>
    ELSE LET found == SelectSeq(valid_tickers,
                          LAMBDA t : ticker_to_company[t] = get(holding, "company", ""))
         IN  IF found = << >> THEN << >> ELSE <<found[1]>>

\* the loop over holdings, over the first n of them
RECURSIVE Overlap(_, _, _, _)
Overlap(holdings, valid_tickers, ticker_to_company, n) ==
    IF n = 0 THEN [overlapping_tickers |-> << >>, total_exposure |-> 0]
    ELSE LET before == Overlap(holdings, valid_tickers, ticker_to_company, n - 1)
             hit == Matches(holdings[n], valid_tickers, ticker_to_company)
         IN  [overlapping_tickers |-> before.overlapping_tickers \o hit,
              total_exposure |-> before.total_exposure
                  + Len(hit) * get(holdings[n], "percentage_to_nav", 0)]

_analyze_fund_holdings(fund, valid_tickers, ticker_to_company, amc_name, min_exposure) ==
    LET holdings == get(fund, "holdings", << >>)
        o == Overlap(holdings, valid_tickers, ticker_to_company, Len(holdings))
    IN  [fund_name |-> get(fund, "fund_name", "Unknown Fund"),
         amc_name |-> amc_name,
         \* round(total_exposure, 2)
         total_exposure |-> 10 * round(o.total_exposure, 10, FALSE),
         overlapping_tickers |-> o.overlapping_tickers,
         num_overlapping_holdings |-> Len(o.overlapping_tickers)]

\* all_fund_mappings.sort(key=lambda x: x['total_exposure'], reverse=True):
\* stable, largest first
RECURSIVE SortByExposure(_)
SortByExposure(mappings) ==
    IF Len(mappings) <= 1 THEN mappings
    ELSE LET rest == SortByExposure(SubSeq(mappings, 1, Len(mappings) - 1))
             last == mappings[Len(mappings)]
             ahead == SelectSeq(rest, LAMBDA m : m.total_exposure >= last.total_exposure)
             behind == SelectSeq(rest, LAMBDA m : m.total_exposure < last.total_exposure)
         IN  ahead \o <<last>> \o behind

\* the fund mappings of the funds of the first n AMCs that pass
\* fund_mapping['total_exposure'] >= min_exposure
RECURSIVE Analysed(_, _, _, _, _)
Analysed(amc_data, valid_tickers, ticker_to_company, min_exposure, n) ==
    IF n = 0 THEN << >>
    ELSE Analysed(amc_data, valid_tickers, ticker_to_company, min_exposure, n - 1)
         \o (IF "funds" \notin DOMAIN amc_data[n].data THEN << >>
             ELSE SelectSeq(
                    [k \in 1..Len(amc_data[n].data.funds) |->
                        _analyze_fund_holdings(amc_data[n].data.funds[k], valid_tickers,
                            ticker_to_company, amc_data[n].amc_name, min_exposure)],
                    LAMBDA m : m.total_exposure >= min_exposure))

\* sum(len(amc_data.get('funds', [])) for amc_data in self.amc_data.values())
RECURSIVE FundCount(_, _)
FundCount(amc_data, n) ==
    IF n = 0 THEN 0
    ELSE FundCount(amc_data, n - 1) + Len(get(amc_data[n].data, "funds", << >>))

RECURSIVE MaxExposure(_, _)
MaxExposure(mappings, n) ==
    IF n = 0 THEN 0
    ELSE LET m == MaxExposure(mappings, n - 1)
         IN  IF n = 1 \/ mappings[n].total_exposure > m
             THEN mappings[n].total_exposure ELSE m

map_tickers_to_funds(amc_data, llm_tickers, min_exposure) ==
    LET valid_tickers == SelectSeq(llm_tickers, LAMBDA t : t \in DOMAIN ticker_mapping)
        ticker_to_company == [t \in Range(valid_tickers) |-> ticker_mapping[t]]
    IN  IF valid_tickers = << >>
        THEN [total_tickers |-> Len(llm_tickers), valid_tickers |-> 0,
              fund_mappings |-> << >>,
              summary |-> [total_funds_analyzed |-> 0, funds_with_overlap |-> 0,
                           max_exposure |-> 0]]
        ELSE LET all_fund_mappings ==
                     SortByExposure(Analysed(amc_data, valid_tickers, ticker_to_company,
                                             min_exposure, Len(amc_data)))
             IN  [total_tickers |-> Len(llm_tickers), valid_tickers |-> Len(valid_tickers),
                  fund_mappings |-> all_fund_mappings,
                  summary |-> [total_funds_analyzed |-> FundCount(amc_data, Len(amc_data)),
                               funds_with_overlap |-> Len(all_fund_mappings),
                               max_exposure |->
                                   MaxExposure(all_fund_mappings, Len(all_fund_mappings))]]

\* the holdings lists of the funds of the checked instances
FundHoldings ==
    { << >>,
      <<[type |-> "Equity", company |-> "HDFC Bank", percentage_to_nav |-> 2500]>>,
      <<[type |-> " equity ", company |-> "Reliance", percentage_to_nav |-> 96],
        [type |-> "Debt", company |-> "HDFC Bank", percentage_to_nav |-> 700]>>,
      <<[type |-> "Equity", company |-> "HDFC Bank", percentage_to_nav |-> 254],
        [type |-> "Equity", company |-> "HDFC Bank", percentage_to_nav |-> 2500]>>,
      <<[type |-> "Equity", is_derivative |-> TRUE, company |-> "Reliance",
         percentage_to_nav |-> 500],
        [company |-> "Reliance", percentage_to_nav |-> 100]>>,
      <<[type |-> "Equity", is_derivative |-> FALSE, company |-> "Reliance",
         percentage_to_nav |-> 2500],
        [type |-> "Equity", company |-> "Other", percentage_to_nav |-> 900]>> }

\* self.amc_data, in the order of its keys: two HDFC funds, and SBI with one
\* fund or without the key 'funds'
AmcData ==
    {<<[amc_name |-> "HDFC",
        data |-> [funds |-> <<[fund_name |-> "F1", holdings |-> h1],
                              [fund_name |-> "F2", holdings |-> h2]>>]],
       [amc_name |-> "SBI", data |-> sbi]>> :
        h1 \in FundHoldings, h2 \in FundHoldings,
        sbi \in {[amc |-> "SBI"]}
                \cup {[funds |-> <<[fund_name |-> "F3", holdings |-> h3]>>] :
                          h3 \in FundHoldings}}

RequestedTickers == {"HDFCBANK", "HDFCBANK.NS", "RELIANCE.NS", "XYZ"}

LLMTickerLists ==
    {<<t>> : t \in RequestedTickers}
    \cup {<<t, u>> : t \in RequestedTickers, u \in RequestedTickers}

\* min_exposure: Query(default=0.1, ge=0.0, le=100.0)
MinExposures == {0, 100, 2600}

MapTickersCall ==
    /\ op = "idle"
    /\ \E amc_data \in AmcData, llm_tickers \in LLMTickerLists, min_exposure \in MinExposures :
          /\ op' = "fund_mapping"
          /\ inp' = [amc_data |-> amc_data, llm_tickers |-> llm_tickers,
                     min_exposure |-> min_exposure]
          /\ out' = map_tickers_to_funds(amc_data, llm_tickers, min_exposure)
          /\ UNCHANGED cache

NextFunds == MapTickersCall \/ RequestEnd

SpecFunds == Init /\ [][NextFunds]_vars

NextFetch == FetchHistoricalCall \/ FetchMultipleCall \/ Return

SpecFetch == Init /\ [][NextFetch]_vars

(***************************************************************************)
(* The process over several requests: fetches on the service of the       *)
(* running request, and the end of the request, which drops the service.   *)
(***************************************************************************)
NextProcess == FetchHistoricalCall \/ FetchMultipleCall \/ Return \/ RequestEnd

SpecProcess == Init /\ [][NextProcess]_vars


\* C7: for every horizon m in 1..120 the interval is weekly exactly when
\* m >= 36 and daily otherwise, and the sampled series holds every 2nd row
\* (positions 0, 2, 4, ...) exactly when 6 <= m <= 35 and all rows otherwise.
C7_SamplingPolicy ==
    op = "sample" =>
        LET m == inp.months
            raw == inp.data.rows
            got == out.sampled.rows
        IN  /\ out.interval = (IF m >= 36 THEN "1wk" ELSE "1d")
            /\ IF 6 <= m /\ m <= 35
               THEN /\ Len(got) = (Len(raw) + 1) \div 2
                    /\ \A i \in 1..Len(got) : got[i] = raw[2 * i - 1]
               ELSE got = raw

\* C7 witness: a decimated call (some row dropped) has happened.
C7_Witness ==
    /\ op = "sample"
    /\ inp.months = 35
    /\ Len(inp.data.rows) = MaxRows
    /\ Len(out.sampled.rows) < Len(inp.data.rows)

\* C9: fetch_historical_data never raises, and a network error, an unknown
\* ticker or an empty result of the data source (on a cache miss, when the
\* data source is asked) each give None to the caller.
C9_FetchNeverRaises ==
    op = "fetch" =>
        /\ ~out.raised
        /\ (~inp.hit /\ inp.cause \in {"network_error", "unknown_ticker", "empty_result"})
              => (out.asked /\ out.value = None)

\* C9 witness: the data source raised on a cache miss and the caller got None.
C9_Witness ==
    /\ op = "fetch"
    /\ ~inp.hit
    /\ inp.resp = SourceError
    /\ out.value = None

\* whether a frame of a bulk result carries data
BulkHasData(bulk, t) ==
    /\ bulk.kind = "bulk"
    /\ t \in DOMAIN bulk.per
    /\ ~IsEmpty(bulk.per[t])
    /\ ~AllNaN(bulk.per[t])

\* C10 (as claimed): every requested ticker that is missing from the bulk
\* result or whose bulk data is empty is retried with an individual fetch, a
\* ticker is in the result mapping exactly when the bulk fetch or its retry
\* produced data for it, and the batch call never fails.
C10_EmptyOrMissingRetried ==
    (op = "batch" /\ inp.bulk.kind = "bulk") =>
        /\ ~out.raised
        /\ \A t \in Range(inp.tickers) :
              /\ ~BulkHasData(inp.bulk, t) => t \in out.retried
              /\ t \in DOMAIN out.results <=>
                    \/ BulkHasData(inp.bulk, t)
                    \/ t \in out.retried /\ (t \in inp.cached \/ inp.indiv[t] \in ShortFrames)

\* the tickers of the call for which usable price data was handed over
UsableTickers ==
    {t \in Range(inp.tickers) :
        /\ t \in DOMAIN inp.ticker_data
        /\ HasPriceColumn(inp.ticker_data[t])
        /\ \E i \in 1..Len(inp.ticker_data[t].rows) : inp.ticker_data[t].rows[i].price # NaN}

\* the dates common to the sampled series of all usable tickers
CommonSampledDates ==
    {d \in UNION {DatesOf(out.ticker_prices[t]) : t \in UsableTickers} :
        \A t \in UsableTickers : d \in DatesOf(out.ticker_prices[t])}

\* C3: if no ticker has usable price data, or the sampled date axes of the
\* tickers with data have fewer than 10 dates in common, the returned series
\* is the synthetic fallback; with 10 or more common dates it is the real
\* composite.
C3_FallbackBelowTenDates ==
    op = "weighted" =>
        IF UsableTickers = {} \/ Cardinality(CommonSampledDates) < 10
        THEN out.result.src = "synthetic"
        ELSE out.result.src = "real"

\* C3 witness: two usable tickers with 9 common dates got the fallback.
C3_Witness ==
    /\ op = "weighted"
    /\ UsableTickers = {"A", "B"}
    /\ Cardinality(CommonSampledDates) = 9
    /\ out.result.src = "synthetic"

\* C3 second case reached: exactly 10 common dates gave the real composite.
C3_WitnessReal ==
    /\ op = "weighted"
    /\ Cardinality(CommonSampledDates) = 10
    /\ out.result.src = "real"

\* C8 (as claimed): for two series sampled for the same horizon, a date that
\* is present in both raw series is kept in both sampled series or dropped
\* from both.
C8_CommonDatesSampledAlike ==
    (op = "weighted" /\ UsableTickers = {"A", "B"}) =>
        \A d \in DatesOf(dropna(inp.ticker_data["A"].rows))
                 \cap DatesOf(dropna(inp.ticker_data["B"].rows)) :
            d \in DatesOf(out.ticker_prices["A"]) <=> d \in DatesOf(out.ticker_prices["B"])

\* C5: the benchmark series returned by fetch_benchmark_performance has
\* exactly one value per composite date, on every path (aligned real data,
\* failed fetch, missing price column, exception during alignment, no dates),
\* and the call does not raise.
C5_BenchmarkLengthMatches ==
    op = "benchmark" =>
        /\ ~out.raised
        /\ Len(out.values) = Len(inp.dates)

\* C5 witness: an aligned series over dates of which some had no benchmark
\* date within the tolerance.
C5_Witness ==
    /\ op = "benchmark"
    /\ out.path = "aligned"
    /\ Len(out.values) = FullRows
    /\ \E k \in 1..Len(inp.dates) :
          \A i \in 1..Len(out.prices) :
              Abs(out.prices[i].date - inp.dates[k]) > AlignTolerance

\* the least number of days between a composite date and a benchmark date
LeastDays(rows, day) ==
    LET all == {Abs(rows[i].date - day) : i \in 1..Len(rows)}
    IN  CHOOSE n \in all : \A x \in all : n <= x

\* C6 (as claimed): each composite date gets the price of a benchmark date at
\* the least day-distance when that distance is at most 3 days, and otherwise
\* the value resolved for the previous composite date (for the first date:
\* the first price of the benchmark series); so a composite date present in
\* the benchmark series gets the price of that date.
C6_NearestWithinThreeDays ==
    (op = "benchmark" /\ out.path = "aligned") =>
        \A k \in 1..Len(inp.dates) :
            LET n == LeastDays(out.prices, inp.dates[k])
            IN  IF n <= 3
                THEN \E i \in 1..Len(out.prices) :
                        /\ Abs(out.prices[i].date - inp.dates[k]) = n
                        /\ out.aligned[k] = out.prices[i].price
                ELSE out.aligned[k] = (IF k = 1 THEN out.prices[1].price
                                       ELSE out.aligned[k - 1])

PayloadFields ==
    {"dates", "index_values", "benchmark_values", "benchmark_name", "benchmark_ticker"}

\* C1 (as claimed): for every holdings list (the empty one too), horizon and
\* value of use_real_data, generate_performance_data returns a payload with
\* the fields dates, index_values, benchmark_values, benchmark_name and
\* benchmark_ticker (synthetic when the real-data path is not taken).
C1_AlwaysFiveFieldPayload ==
    (op = "perf" /\ \A i \in 1..Len(inp.holdings) : inp.holdings[i].country # Null) =>
        /\ ~out.raised
        /\ out.value # None
        /\ PayloadFields \subseteq DOMAIN out.value
        /\ (~inp.use_real_data \/ Len(inp.holdings) = 0) => out.value.src = "synthetic"

\* C2 (as claimed): every /performance-data request ends with a response
\* payload (the series with stats and benchmark_stats) and no exception
\* reaches the end user, also when the handler's fallback branch runs.
C2_RequestAlwaysAnswered ==
    op = "request" =>
        /\ ~out.raised
        /\ out.value # None
        /\ {"performance_data", "stats", "benchmark_stats"} \subseteq DOMAIN out.value

\* C4 (as claimed): in every series handed to the caller, real or synthetic,
\* the first composite value and the first benchmark value are 100.00.
C4_SeriesStartAt100 ==
    (op = "perf" /\ ~out.raised /\ out.value # None) =>
        /\ out.value.index_values[1] = 10000
        /\ out.value.benchmark_values[1] = 10000

\* C11 (as claimed): once a fetch for a key has succeeded, every later fetch
\* of that key in the process, a later request's too, is served from the
\* cache without asking the data source.  Step by step: a successful fetch
\* leaves its key in the cache, no step of the process (the end of a request
\* included) takes a key out of the cache, and a fetch of a key that is in
\* the cache does not ask the data source.
C11_ReadThroughForProcess ==
    [][/\ \A k \in DOMAIN cache : k \in DOMAIN cache'
       /\ (op' = "fetch" /\ out'.value # None) => inp'.key \in DOMAIN cache'
       /\ (op' = "fetch" /\ inp'.key \in DOMAIN cache) => ~out'.asked]_vars

C13_RepeatedCallSameOutput ==
    (/\ op = "perf_twice"
     /\ out.first # None
     /\ out.first.src = "real"
     /\ \A i \in Range(ValidPositions(inp.holdings)) :
            \E k \in out.cached : k[1] = inp.holdings[i].ticker)
        => out.second = out.first

\* the holdings of the call with a non-empty ticker and a weight above 0, in
\* the order of the list
KeptHoldings ==
    SelectSeq(inp.holdings,
              LAMBDA h : /\ "ticker" \in DOMAIN h
                         /\ h.ticker \in Tickers
                         /\ "weight" \in DOMAIN h
                         /\ h.weight >= 1)

PricedOn(date) ==
    {i \in 1..Len(inp.tickers) :
        /\ inp.tickers[i] \in DOMAIN inp.ticker_data
        /\ inp.ticker_data[inp.tickers[i]].col \in {"Adj Close", "Close"}
        /\ \E r \in Range(inp.ticker_data[inp.tickers[i]].rows) :
              r.date = date /\ r.price # NaN}

\* the price the frame of the ticker at position i holds on date
RawPrice(i, date) ==
    (CHOOSE r \in Range(inp.ticker_data[inp.tickers[i]].rows) : r.date = date).price

\* over the tickers at positions 1..n priced on date: the sum of
\* price * weight and the sum of the weights
RECURSIVE PricedSums(_, _)
PricedSums(date, n) ==
    IF n = 0 THEN [value |-> 0, weight |-> 0]
    ELSE LET rest == PricedSums(date, n - 1)
         IN  IF n \in PricedOn(date)
             THEN [value |-> rest.value + RawPrice(n, date) * inp.weights[n],
                   weight |-> rest.weight + inp.weights[n]]
             ELSE rest

PricedValue(date) == PricedSums(date, Len(inp.tickers)).value

PricedWeight(date) == PricedSums(date, Len(inp.tickers)).weight

\* C15: on every date of a real composite, the composite value is the sum of
\* price * weight over the tickers with a price on that date divided by the
\* sum of the weights of those tickers (a ticker without data is in neither
\* sum), and the index value is that value divided by the value of the first
\* date, times 100; both are given to two decimals.
C15_WeightedAverageNormalised ==
    (op = "weighted" /\ out.result.src = "real") =>
        \A k \in 1..Len(out.result.dates) :
            LET first == out.result.dates[1]
                date == out.result.dates[k]
                g == GCD(PricedWeight(first), PricedWeight(date))
                den1 == PricedWeight(first) \div g
                denk == PricedWeight(date) \div g
            IN  /\ PricedOn(date) # {}
                /\ 2 * Abs(out.result.portfolio_values[k] * PricedWeight(date)
                           - 100 * PricedValue(date)) <= PricedWeight(date)
                /\ 2 * Abs(out.result.index_values[k] * PricedValue(first) * denk
                           - 10000 * PricedValue(date) * den1)
                       <= PricedValue(first) * denk

\* C15 witness: tickers weighted 60/40 with prices 100, 110 and 100, 90 on
\* the first two dates gave 100.00 and 102.00.
C15_Witness ==
    /\ op = "weighted"
    /\ out.result.src = "real"
    /\ inp.weights = <<60, 40>>
    /\ PricedOn(out.result.dates[2]) = {1, 2}
    /\ RawPrice(1, out.result.dates[1]) = 100 /\ RawPrice(1, out.result.dates[2]) = 110
    /\ RawPrice(2, out.result.dates[1]) = 100 /\ RawPrice(2, out.result.dates[2]) = 90
    /\ out.result.index_values[1] = 10000
    /\ out.result.index_values[2] = 10200

\* C15 witness: a composite of one ticker; no data was fetched for the other.
C15_WitnessMissingTicker ==
    /\ op = "weighted"
    /\ out.result.src = "real"
    /\ DOMAIN inp.ticker_data = {"B"}
    /\ out.result.portfolio_values[1] = 100 * RawPrice(2, out.result.dates[1])

\* C16: the dates of a real composite are dates common to the sampled series
\* of all tickers with data, in ascending order, min(months * 21, count) of
\* them, and every common date left out is older than every date kept.
C16_RecentCommonDates ==
    (op = "weighted" /\ out.result.src = "real") =>
        LET dates == out.result.dates
            count == Cardinality(CommonSampledDates)
            kept == IF inp.months * 21 <= count THEN inp.months * 21 ELSE count
        IN  /\ \A k \in 1..Len(dates) : dates[k] \in CommonSampledDates
            /\ \A k \in 2..Len(dates) : dates[k - 1] < dates[k]
            /\ Len(dates) = kept
            /\ \A d \in CommonSampledDates :
                  d \notin Range(dates) => \A k \in 1..Len(dates) : d < dates[k]

\* C16 witness: 22 common dates at a horizon of one month; the 21 most
\* recent were kept and the oldest was left out.
C16_Witness ==
    /\ op = "weighted"
    /\ out.result.src = "real"
    /\ UsableTickers = {"A", "B"}
    /\ Cardinality(CommonSampledDates) > inp.months * 21
    /\ Len(out.result.dates) = inp.months * 21
    /\ \E d \in CommonSampledDates : d < out.result.dates[1]

\* beta, alpha and correlation
BenchmarkFields == {"beta", "alpha", "correlation"}

\* C17 (as claimed): the statistics record of a price series holds beta,
\* alpha and correlation only when a benchmark series of the length of the
\* price series was supplied; without a benchmark, or with one of another
\* length, the three fields are absent.  Stated of the record of
\* calculate_real_performance_stats and of the record of generate_stats.
C17_BenchmarkFieldsOnlyWithBenchmark ==
    /\ op = "stats" =>
          (out.fields \cap BenchmarkFields # {} =>
              /\ Len(inp.benchmark_data) > 0
              /\ Len(inp.benchmark_data) = Len(inp.price_data))
    /\ (op = "generate_stats" /\ inp.performance_data # None) =>
          (out.fields \cap BenchmarkFields # {} =>
              /\ "benchmark_values" \in DOMAIN inp.performance_data
              /\ Len(inp.performance_data.benchmark_values)
                    = Len(inp.performance_data.index_values))

\* C18 (as claimed): for a non-empty series of positive prices the record
\* holds max_drawdown, and max_drawdown <= 0.
C18_MaxDrawdownNeverPositive ==
    (/\ op = "stats"
     /\ Len(inp.price_data) > 0
     /\ \A k \in 1..Len(inp.price_data) : inp.price_data[k] > 0) =>
        /\ "max_drawdown" \in out.fields
        /\ out.max_drawdown <= 0

\* C18 (amended): for a series of at least 2 positive prices the record holds
\* max_drawdown, and max_drawdown <= 0; a series of one price gives the empty
\* record.
C18_MaxDrawdownFromTwoPoints ==
    (/\ op = "stats"
     /\ \A k \in 1..Len(inp.price_data) : inp.price_data[k] > 0) =>
        IF Len(inp.price_data) >= 2
        THEN "max_drawdown" \in out.fields /\ out.max_drawdown <= 0
        ELSE out.fields = {}

\* C18 witness: a series that fell below an earlier price; its max_drawdown
\* is below 0.
C18_Witness ==
    /\ op = "stats"
    /\ Len(inp.price_data) >= 3
    /\ \A k \in 1..Len(inp.price_data) : inp.price_data[k] > 0
    /\ inp.price_data[2] > inp.price_data[3]
    /\ "max_drawdown" \in out.fields
    /\ out.max_drawdown < 0

\* the period returns of the series of the call are all equal
EqualReturns ==
    \A i \in 1..(Len(inp.price_data) - 1) :
        (inp.price_data[i + 1] - inp.price_data[i]) * inp.price_data[1]
            = (inp.price_data[2] - inp.price_data[1]) * inp.price_data[i]

\* C19 (as claimed): when all period returns of the series are equal,
\* sharpe_ratio and sortino_ratio are both 0, for constant prices, constant
\* positive returns and constant negative returns.
C19_ZeroVarianceZeroRatios ==
    (op = "stats" /\ "sharpe_ratio" \in out.fields /\ EqualReturns) =>
        /\ out.sharpe_ratio.excess = 0
        /\ out.sortino_ratio.excess = 0

\* C20: calculate_real_performance_stats does not raise; for a missing or
\* empty series, a series of fewer than 2 points and a series on which a
\* computation step fails the record is empty.
C20_StatsNeverRaise ==
    op = "stats" =>
        /\ ~out.raised
        /\ (\/ Len(inp.price_data) < 2
            \/ \E k \in 1..Len(inp.price_data) : inp.price_data[k] = NotNumeric)
              => out.fields = {}

\* C20 witness: a series with an entry that is no number gave the empty
\* record.
C20_Witness ==
    /\ op = "stats"
    /\ Len(inp.price_data) >= 2
    /\ \E k \in 1..Len(inp.price_data) : inp.price_data[k] = NotNumeric
    /\ ~out.raised
    /\ out.fields = {}

\* the statistics engine has no record for the payload of the call
RealStatsUnavailable ==
    \/ ~inp.use_real_data
    \/ inp.performance_data = None
    \/ "index_values" \notin DOMAIN inp.performance_data
    \/ Len(inp.performance_data.index_values) < 2
    \/ \E k \in 1..Len(inp.performance_data.index_values) :
          inp.performance_data.index_values[k] = NotNumeric

\* C21: generate_stats does not raise and its record holds total_return,
\* max_drawdown, sharpe_ratio and volatility for every payload; when the
\* payload is absent, has no index_values, or its series gives the empty
\* record, the record is the placeholder record of these four fields.
C21_StatsRecordAlwaysFilled ==
    op = "generate_stats" =>
        /\ ~out.raised
        /\ {"total_return", "max_drawdown", "sharpe_ratio", "volatility"} \subseteq out.fields
        /\ RealStatsUnavailable =>
              out.fields = {"total_return", "max_drawdown", "sharpe_ratio", "volatility"}

\* C21 witness: real statistics were asked for a series the engine answers
\* with the empty record; the placeholder record came back.
C21_Witness ==
    /\ op = "generate_stats"
    /\ inp.use_real_data
    /\ inp.performance_data # None
    /\ "index_values" \in DOMAIN inp.performance_data
    /\ Len(inp.performance_data.index_values) = 1
    /\ out.fields = {"total_return", "max_drawdown", "sharpe_ratio", "volatility"}

\* the country code of a holding of the call: its country in upper case
CodeOf(i) ==
    CASE inp.holdings[i].country = "in" -> "IN"
      [] OTHER -> inp.holdings[i].country

\* the positions of the holdings of the call that carry a country
Carrying ==
    {i \in 1..Len(inp.holdings) : inp.holdings[i].country \notin {Absent, Null}}

\* the holdings of the call of country code c
HoldingsOf(c) == {i \in Carrying : CodeOf(i) = c}

\* the country code more than half of the holdings with a country belong to
MajorityCodes ==
    {c \in {"US", "IN", "JP"} : 2 * Cardinality(HoldingsOf(c)) > Cardinality(Carrying)}

\* C22 (as claimed): the benchmark is the one of the country the majority of
\* the holdings belong to, and the S&P 500 (^GSPC) for no holdings and for
\* mixed countries without a majority; holdings with the same countries get
\* the same benchmark.
C22_MajorityCountryBenchmark ==
    (op = "select" /\ ~out.raised) =>
        /\ \A c \in MajorityCodes : out.value = BENCHMARK_MAP[c]
        /\ MajorityCodes = {} => out.value.ticker = "^GSPC"
        /\ out.twin = out.value

\* the one code of the map all holdings with a country share, if there is one
SharedCodes ==
    {c \in {"US", "IN", "JP"} : Carrying # {} /\ \A i \in Carrying : CodeOf(i) = c}

\* C26 (as claimed): when all holdings that carry a country share one code
\* of BENCHMARK_MAP, the benchmark of that country is returned; in every
\* other case (no holdings, no holding with a country, several codes, a code
\* the map lacks, a country name) the S&P 500 entry (^GSPC) is returned; the
\* result is always an entry with a name and a ticker.
C26_SharedCountryOrDefault ==
    op = "select" =>
        /\ ~out.raised
        /\ DOMAIN out.value = {"name", "ticker"}
        /\ \A c \in SharedCodes : out.value = BENCHMARK_MAP[c]
        /\ SharedCodes = {} => out.value = [name |-> "S&P 500", ticker |-> "^GSPC"]

\* C23: every date of the synthetic series is a Monday to Friday, the dates
\* are strictly increasing and lie between now - 30 * months days and now,
\* and the series has exactly one value per date.
C23_FallbackBusinessDays ==
    (op = "weighted" /\ out.result.src = "synthetic") =>
        LET dates == out.result.dates
        IN  /\ \A k \in 1..Len(dates) :
                  /\ weekday(dates[k]) \in 0..4
                  /\ Today - DaysPerMonth * inp.months <= dates[k]
                  /\ dates[k] <= Today
            /\ \A k \in 1..(Len(dates) - 1) : dates[k] < dates[k + 1]
            /\ Len(out.result.index_values) = Len(dates)
            /\ Len(out.result.portfolio_values) = Len(dates)

\* C23 witness: a synthetic series over six months whose span of 181 days
\* holds weekends, which the series skips.
C23_Witness ==
    /\ op = "weighted"
    /\ out.result.src = "synthetic"
    /\ inp.months = 6
    /\ Len(out.result.dates) > 100
    /\ Len(out.result.dates) < DaysPerMonth * inp.months + 1
    /\ Len(out.result.index_values) = Len(out.result.dates)

\* the number of invocations of the LLM a finished call made
Invocations == Cardinality({i \in 1..Len(out.log) : out.log[i].event = "invoke"})

\* the number of attempts of a call, of at most 3, that failed in a row
FailedAttempts ==
    Cardinality({i \in 1..3 : \A j \in 1..i : inp.answers[j] = Failure})

\* the retry schedule of a finished call that ran the attempts
RetrySchedule ==
    /\ Invocations <= 3
    /\ Invocations = Min(FailedAttempts + 1, 3)
    /\ FailedAttempts < 3 =>
          /\ ~out.raised
          /\ out.text = inp.answers[FailedAttempts + 1]
    /\ FailedAttempts = 3 =>
          /\ out.raised
          /\ out.last_exception = 3
    /\ Len(out.log) = 2 * Invocations - 1
    /\ \A i \in 1..Len(out.log) :
          /\ i \in {1, 3, 5} => out.log[i].event = "invoke"
          /\ i = 2 => out.log[i] = [event |-> "sleep", seconds |-> 20]
          /\ i = 4 => out.log[i] = [event |-> "sleep", seconds |-> 40]

\* C24: a call for an uncached prompt invokes the LLM at most 3 times; the
\* first successful attempt ends the call with its text; the call waits 20 s
\* after the 1st and 40 s after the 2nd failed attempt before the next one;
\* after the 3rd failed attempt it raises, without a wait, an error carrying
\* the last failure.
C24_RetrySchedule ==
    [][(op' = "llm" /\ inp'.prompt \notin Cached(cache.entries)) => RetrySchedule']_vars

\* C24 witness: a call whose three attempts failed slept 20 s and 40 s and
\* raised with the third failure.
C24_Witness ==
    /\ op = "llm"
    /\ out.raised
    /\ out.last_exception = 3
    /\ Len(out.log) = 5
    /\ out.log[2].seconds = 20
    /\ out.log[4].seconds = 40

\* what every call keeps of the cache: it invokes the LLM only for a prompt
\* without a cached response, and a call that raised stores nothing
CachedOnlySuccess ==
    op' = "llm" =>
        /\ out'.log # << >> <=> inp'.prompt \notin Cached(cache.entries)
        /\ out'.raised => /\ cache'.entries = cache.entries
                          /\ inp'.prompt \notin Cached(cache'.entries)

\* C27 (as claimed): the LLM is invoked for a prompt only when no successful
\* response for it is cached; after a success a repeated call with the same
\* prompt returns the same text with zero invocations; a call whose 3
\* attempts failed leaves no cache entry, so the next call starts afresh.
C27_RepeatedPromptNeverInvokes ==
    [][/\ CachedOnlySuccess
       /\ (op' = "llm" /\ inp'.prompt = 0 /\ cache.delivered # Null) =>
            /\ out'.log = << >>
            /\ out'.text = cache.delivered]_vars

\* C27 (amended): as claimed, for a repeated call made before 100 other
\* prompts have been answered since the prompt was last answered; from the
\* 100th on the response has been dropped from the cache of 100 entries.
C27_RepeatedPromptWhileCached ==
    [][/\ CachedOnlySuccess
       /\ (op' = "llm" /\ inp'.prompt = 0 /\ cache.delivered # Null /\ cache.since < 100) =>
            /\ out'.log = << >>
            /\ out'.text = cache.delivered]_vars

\* C27 witness: a repeated call for prompt 0, 99 other prompts after its last
\* answer, got the stored text without an invocation.
C27_Witness ==
    /\ op = "llm"
    /\ inp.prompt = 0
    /\ out.log = << >>
    /\ out.text = cache.delivered
    /\ Len(cache.entries) = 100
    /\ cache.entries[1].prompt = 1

\* the sum of the weights a call of normalize_weights left
FinalTotal == WeightSum(out.holdings, Len(out.holdings))

\* C25: for every non-empty list of holdings, whatever the weights (a total
\* of zero, a negative total, a total far from 100), the weights after
\* normalize_weights sum to 100.00 within 0.01 and validate_holdings_weights
\* accepts them; the number, the order and the tickers of the holdings are
\* as before.
C25_NormalizedToHundred ==
    op = "normalize" =>
        /\ Abs(FinalTotal.num - 10000 * FinalTotal.den) <= FinalTotal.den
        /\ out.validated = "accepted"
        /\ Len(out.holdings) = Len(inp.holdings)
        /\ \A i \in 1..Len(inp.holdings) : out.holdings[i].ticker = inp.holdings[i].ticker

\* C25 witness: three holdings of 1.00 each were scaled to 33.33 each, and
\* the first was moved to 33.34 to reach 100.00.
C25_Witness ==
    /\ op = "normalize"
    /\ Len(inp.holdings) = 3
    /\ \A i \in 1..3 : inp.holdings[i].weight = Fraction(100, 1)
    /\ out.holdings[1].weight = Fraction(3334, 1)
    /\ out.holdings[2].weight = Fraction(3333, 1)
    /\ out.holdings[3].weight = Fraction(3333, 1)
    /\ out.validated = "accepted"

\* the funds of the reference data of a call
FundsOfCall ==
    UNION {Range(inp.amc_data[n].data.funds) :
              n \in {k \in 1..Len(inp.amc_data) : "funds" \in DOMAIN inp.amc_data[k].data}}

\* the companies the requested tickers of a call are mapped to
MappedCompanies ==
    {ticker_mapping[t] : t \in Range(inp.llm_tickers) \cap DOMAIN ticker_mapping}

\* the holdings of a fund that count: equity, no derivative, of a company a
\* requested ticker is mapped to
Counted(fund) ==
    {k \in 1..Len(fund.holdings) :
        /\ "type" \in DOMAIN fund.holdings[k]
        /\ fund.holdings[k].type \in {"Equity", " equity "}
        /\ ~get(fund.holdings[k], "is_derivative", FALSE)
        /\ fund.holdings[k].company \in MappedCompanies}

\* the sum of percentage_to_nav over a set of holdings of a fund
RECURSIVE PercentageSum(_, _)
PercentageSum(fund, positions) ==
    IF positions = {} THEN 0
    ELSE LET k == CHOOSE x \in positions : TRUE
         IN  fund.holdings[k].percentage_to_nav + PercentageSum(fund, positions \ {k})

ExposureSum(fund) == PercentageSum(fund, Counted(fund))

\* the sum rounded to hundredths: the multiple of 10 thousandths next to it
ExposureRounded(fund) ==
    IF (ExposureSum(fund) % 10) < 5 THEN ExposureSum(fund) - (ExposureSum(fund) % 10)
    ELSE ExposureSum(fund) - (ExposureSum(fund) % 10) + 10

\* what holds of every answer: no fund twice, largest exposure first, the
\* summary counts the funds and carries the largest exposure (0 for none)
OrderedAndSummed ==
    /\ \A i, j \in 1..Len(out.fund_mappings) :
          /\ i < j => out.fund_mappings[i].total_exposure >= out.fund_mappings[j].total_exposure
          /\ i # j => out.fund_mappings[i].fund_name # out.fund_mappings[j].fund_name
    /\ out.summary.funds_with_overlap = Len(out.fund_mappings)
    /\ out.fund_mappings = << >> => out.summary.max_exposure = 0
    /\ out.fund_mappings # << >> =>
          /\ \E i \in 1..Len(out.fund_mappings) :
                out.summary.max_exposure = out.fund_mappings[i].total_exposure
          /\ \A i \in 1..Len(out.fund_mappings) :
                out.summary.max_exposure >= out.fund_mappings[i].total_exposure

\* C28 (as claimed): the answer holds exactly the funds whose total exposure
\* is at least min_exposure, the total exposure of a fund being the sum of
\* percentage_to_nav over its equity, non-derivative holdings of a company a
\* requested ticker is mapped to, each holding once; largest first;
\* funds_with_overlap is their number and max_exposure the largest exposure.
C28_FundsAtOrAboveMinExposure ==
    op = "fund_mapping" =>
        /\ {out.fund_mappings[i].fund_name : i \in 1..Len(out.fund_mappings)}
             = {f.fund_name : f \in {g \in FundsOfCall : ExposureSum(g) >= inp.min_exposure}}
        /\ \A i \in 1..Len(out.fund_mappings) : \A f \in FundsOfCall :
              f.fund_name = out.fund_mappings[i].fund_name =>
                  out.fund_mappings[i].total_exposure = ExposureSum(f)
        /\ OrderedAndSummed

\* C28 (amended): as claimed when a requested ticker is mapped, with the sum
\* rounded to 2 places as the total exposure; no fund, and a summary of
\* zeros, when no requested ticker is mapped.
C28_FundsOfMappedTickers ==
    op = "fund_mapping" =>
        /\ MappedCompanies # {} =>
              /\ {out.fund_mappings[i].fund_name : i \in 1..Len(out.fund_mappings)}
                   = {f.fund_name :
                         f \in {g \in FundsOfCall : ExposureRounded(g) >= inp.min_exposure}}
              /\ \A i \in 1..Len(out.fund_mappings) : \A f \in FundsOfCall :
                    f.fund_name = out.fund_mappings[i].fund_name =>
                        out.fund_mappings[i].total_exposure = ExposureRounded(f)
        /\ MappedCompanies = {} =>
              /\ out.fund_mappings = << >>
              /\ out.summary.funds_with_overlap = 0
              /\ out.summary.max_exposure = 0
        /\ OrderedAndSummed

\* C28 witness: both tickers of one company were requested; three funds came
\* back, the fund listed last in the data first, its two holdings of the
\* company counted once each.
C28_Witness ==
    /\ op = "fund_mapping"
    /\ inp.llm_tickers = <<"HDFCBANK", "HDFCBANK.NS">>
    /\ Len(out.fund_mappings) = 3
    /\ out.fund_mappings[1].fund_name = "F3"
    /\ out.fund_mappings[1].total_exposure = 2750
    /\ out.fund_mappings[2].total_exposure = 2500
    /\ out.summary.max_exposure = 2750

\* C29: a real composite has at least 10 and at most months * 21 points, as
\* many index values as dates, and strictly increasing dates.
C29_RealCompositeShape ==
    (op = "weighted" /\ out.result.src = "real") =>
        /\ Len(out.result.dates) >= 10
        /\ Len(out.result.dates) <= inp.months * 21
        /\ Len(out.result.index_values) = Len(out.result.dates)
        /\ \A k \in 1..(Len(out.result.dates) - 1) :
              out.result.dates[k] < out.result.dates[k + 1]

\* C29 witness: a real composite of exactly 10 points at a horizon of six
\* months.
C29_Witness ==
    /\ op = "weighted"
    /\ out.result.src = "real"
    /\ inp.months = 6
    /\ Len(out.result.dates) = 10
    /\ Len(out.result.index_values) = 10

\* C30: fetch_historical_data writes the cache only after the data source
\* answered with a series that is not empty; a fetch that fails or gets an
\* empty result leaves the cache as it was, without the key, so a later fetch
\* of the key asks the data source again; a cache hit leaves the cache as it
\* was.
C30_CacheWrittenOnSuccessOnly ==
    [][op' = "fetch" =>
        /\ cache' # cache =>
              /\ inp'.key \notin DOMAIN cache
              /\ inp'.resp.kind # "raise"
              /\ Len(inp'.resp.rows) > 0
              /\ cache' = (inp'.key :> inp'.resp) @@ cache
        /\ (inp'.key \notin DOMAIN cache
              /\ (inp'.resp.kind = "raise" \/ inp'.resp = EmptyFrame)) =>
              /\ cache' = cache
              /\ inp'.key \notin DOMAIN cache'
        /\ inp'.key \notin DOMAIN cache => out'.asked
        /\ inp'.key \in DOMAIN cache => cache' = cache /\ ~out'.asked]_vars

\* C30 witness: on a cache that holds another key the data source answered
\* with an empty series; the key was not written.
C30_Witness ==
    /\ op = "fetch"
    /\ ~inp.hit
    /\ inp.resp = EmptyFrame
    /\ out.asked
    /\ inp.key \notin DOMAIN cache
    /\ Cardinality(DOMAIN cache) = 1

====
